---- MODULE Spec2Model ----
(***************************************************************************)
(* Model of whensday: the date-grouping engine, which expands a date      *)
(* range and a recurrence pattern into voting options (generateDateGroups) *)
(* with its counting, labelling and formatting routines, and around it the *)
(* rate limiter, the list of created polls and the server actions.         *)
(*                                                                         *)
(* Two versions of the library are modelled side by side, as they are in   *)
(* the sources: the current one (flexible / weekend / weekday-range) and   *)
(* the legacy one (flexible / weekend / week / two-weeks / long-weekend /  *)
(* custom); the legacy definitions carry the prefix legacy_.               *)
(*                                                                         *)
(* A JavaScript Date is an instant; the library reads and moves it through *)
(* its LOCAL calendar fields (date-fns addDays, startOfDay, getDay,        *)
(* format) and compares it through its instant (<=, getTime).  A Date is   *)
(* modelled as its local wall-clock reading [day, tod]: day counts         *)
(* calendar days from 2025-03-01 (day 0, a Saturday), tod is the hour of   *)
(* the day.  getTime turns the reading into the instant, in hours, in the  *)
(* time zone the program runs in.                                          *)
(*                                                                         *)
(* Specifications: Spec (the library on well-formed patterns and ranges),  *)
(* SpecWeekday (calculateWeekdaySpan, nextWeekday), SpecInverted (ranges   *)
(* with start after end), SpecUnknown (pattern types a library has no case *)
(* for), SpecFormat (formatGroupRange), SpecPicker (CalendarPicker,        *)
(* createDoodle and the vote view), SpecRate (the rate limiter), SpecPolls *)
(* (useCreatedPolls), SpecLoop (the loops of the library, pass by pass),   *)
(* SpecTimeOfDay (ranges whose bounds are not at midnight), SpecCast       *)
(* (concurrent castVote calls), SpecDelete (createDoodle, castVote and     *)
(* deleteDoodle) and SpecAccommodation (submitAccommodation and            *)
(* voteAccommodation).                                                     *)
(***************************************************************************)
EXTENDS Integers, Sequences, FiniteSets, TLC

VARIABLES tz, lib, pattern, range, pc, groups, op, arg, ret, threw,
          excludedGroups, doodleDates,
          requests, now, cleanupIntervalId, limits, hist,
          polls, storedPolls, idsIssued, repeats,
          loopCurrent, iterations,
          doodles, votes, accommodations, castPc, voteCount

\* The inputs and the result of generateDateGroups, the last function that
\* was called with its argument, its return value and whether it threw.
dateVars == <<tz, lib, pattern, range, pc, groups>>
callVars == <<op, arg, ret, threw>>
\* CalendarPicker: the excluded groups and the dates handed to the form.
pickerVars == <<excludedGroups, doodleDates>>
\* The rate limiter: its store, the clock, the cleanup timer; limits holds
\* the (maxRequests, windowMs) each key is called with, hist the history
\* of the calls of each key.
rateVars == <<requests, now, cleanupIntervalId, limits, hist>>

\* useCreatedPolls: the polls state of the hook and the list saved in
\* localStorage; idsIssued counts the poll ids generated so far and
\* repeats the calls that were made with an id used before or unknown.
pollVars == <<polls, storedPolls, idsIssued, repeats>>
\* A loop of the library run pass by pass: its cursor and the passes made.
loopVars == <<loopCurrent, iterations>>
\* The database tables, and the castVote calls in flight: where each call
\* stands and the vote count it has read.
dbVars == <<doodles, votes, accommodations>>
castVars == <<castPc, voteCount>>
appVars == <<pollVars, loopVars, dbVars, castVars>>

vars == <<dateVars, callVars, pickerVars, rateVars, appVars>>

(***************************************************************************)
(* Bounds of the model.                                                    *)
(***************************************************************************)
MaxStartDay == 6
MaxRangeDays == 29
MaxCustomDays == 5
MaxIndex == 5
SpringForwardDay == 8

(***************************************************************************)
(* The environment: the time zone of the browser or server.                *)
(* "UTC" has no daylight saving; "America/New_York" moves its clocks from  *)
(* 02:00 to 03:00 on 2025-03-09 (day SpringForwardDay of the model).       *)
(***************************************************************************)
TimeZones == {"UTC", "America/New_York"}

HoursPerDay == 24

\* JavaScript values that are not numbers, strings or lists.
Undefined == [js |-> "undefined"]
NaN == [js |-> "NaN"]

\* assertNever: throw new Error(`Unexpected value: ...`); the Error thrown.
assertNever(value) == [js |-> "Error", message |-> "Unexpected value"]

Date(day, tod) == [day |-> day, tod |-> tod]

\* Hours by which the local clock has been advanced at a local reading.
dstShift(d) ==
  IF tz = "America/New_York"
       /\ (d.day > SpringForwardDay \/ (d.day = SpringForwardDay /\ d.tod >= 3))
  THEN 1 ELSE 0

\* Date.prototype.getTime / valueOf: the instant of a Date, here in hours.
getTime(d) == d.day * HoursPerDay + d.tod - dstShift(d)

\* The relational operators of JavaScript on two Dates compare the instants.
DateLE(a, b) == getTime(a) <= getTime(b)

\* date-fns addDays: setDate(getDate() + amount), the local time is kept.
addDays(d, amount) == Date(d.day + amount, d.tod)

\* date-fns startOfDay: setHours(0, 0, 0, 0).
startOfDay(d) == Date(d.day, 0)

\* date-fns getDay: the local day of the week, 0 = Sunday .. 6 = Saturday.
getDay(d) == (d.day + 6) % 7

\* date-fns isSaturday.
isSaturday(d) == getDay(d) = 6

\* date-fns nextSaturday: the Saturday strictly after the date.
nextSaturday(d) ==
  LET delta == 6 - getDay(d)
  IN  addDays(d, IF delta <= 0 THEN delta + 7 ELSE delta)

(***************************************************************************)
(* The local calendar of 2025, for format().                               *)
(***************************************************************************)
MonthLengths == <<31, 28, 31, 30, 31, 30, 31, 31, 30, 31, 30, 31>>
MONTH_NAMES == <<"Jan", "Feb", "Mar", "Apr", "May", "Jun",
                 "Jul", "Aug", "Sep", "Oct", "Nov", "Dec">>
WEEKDAY_NAMES == <<"Sun", "Mon", "Tue", "Wed", "Thu", "Fri", "Sat">>

RECURSIVE monthAndDay(_, _)
monthAndDay(month, rest) ==
  IF rest < MonthLengths[month]
  THEN [month |-> month, date |-> rest + 1]
  ELSE monthAndDay(month + 1, rest - MonthLengths[month])

\* Date.prototype.getMonth (1-based here) and getDate of a local reading.
getMonth(d) == monthAndDay(3, d.day).month
getDate(d) == monthAndDay(3, d.day).date

pad2(n) == IF n < 10 THEN "0" \o ToString(n) ELSE ToString(n)

\* format(d, "yyyy-MM-dd")
formatISO(d) == "2025-" \o pad2(getMonth(d)) \o "-" \o pad2(getDate(d))
\* format(d, "MMM d")
formatMMMd(d) == MONTH_NAMES[getMonth(d)] \o " " \o ToString(getDate(d))
\* format(d, "d")
formatd(d) == ToString(getDate(d))
\* format(d, "EEE, MMM d")
formatEEEMMMd(d) == WEEKDAY_NAMES[getDay(d) + 1] \o ", " \o formatMMMd(d)

\* date-fns eachDayOfInterval: the local midnights of the days from the day
\* of start while they are not after the instant of end.  For start > end
\* date-fns 3 and later walk from end to start and reverse the list, and
\* date-fns 2 throws RangeError("Invalid interval").
RECURSIVE eachDayLoop(_, _, _)
eachDayLoop(currentDate, end, dates) ==
  IF DateLE(currentDate, end)
  THEN eachDayLoop(startOfDay(addDays(currentDate, 1)), end,
                   Append(dates, currentDate))
  ELSE dates

Reverse(seq) == [i \in 1..Len(seq) |-> seq[Len(seq) + 1 - i]]

eachDayOfInterval(start, end) ==
  IF DateLE(start, end)
  THEN eachDayLoop(startOfDay(start), end, <<>>)
  ELSE Reverse(eachDayLoop(startOfDay(end), start, <<>>))

DateFnsVersions == {"2", "3"}

eachDayOfIntervalThrows(version, start, end) ==
  version = "2" /\ ~DateLE(start, end)

\* days.map((d) => format(d, "yyyy-MM-dd"))
formatEach(days) == [i \in 1..Len(days) |-> formatISO(days[i])]

\* new Date(iso + "T00:00:00"): the local midnight of the day an ISO string
\* names, found by searching the calendar for the day that formats to it.
HorizonDay == MaxStartDay + MaxRangeDays + 31
IsoOfDay == [d \in 0..HorizonDay |-> formatISO(Date(d, 0))]
parseISO(iso) == Date(CHOOSE d \in 0..HorizonDay : IsoOfDay[d] = iso, 0)

(***************************************************************************)
(* Weekday range helpers.                                                  *)
(***************************************************************************)
\* Variant: the wrap-around branch forgets to count endDay itself.
calculateWeekdaySpan_wrapOffByOne(startDay, endDay) ==
  IF endDay >= startDay
  THEN endDay - startDay + 1
  ELSE 7 - startDay + endDay

\* Variant: the difference is never wrapped around the end of the week.
calculateWeekdaySpan_noWrap(startDay, endDay) ==
  endDay - startDay + 1

\* Variant: the span counts one day more than the range of weekdays has.
calculateWeekdaySpan_oneMore(startDay, endDay) ==
  IF endDay >= startDay
  THEN endDay - startDay + 2
  ELSE 7 - startDay + endDay + 2

calculateWeekdaySpan(startDay, endDay) ==
  IF endDay >= startDay
  THEN endDay - startDay + 1
  ELSE 7 - startDay + endDay + 1

getWeekdayRangeLabel(startDay, endDay, index) ==
  WEEKDAY_NAMES[startDay + 1] \o "-" \o WEEKDAY_NAMES[endDay + 1]
    \o " " \o ToString(index)

\* Variant: behaves as nextSaturday does, a matching date jumps a week ahead.
nextWeekday_strictlyAfter(date, weekday) ==
  LET delta == weekday - getDay(date)
  IN  addDays(date, IF delta <= 0 THEN delta + 7 ELSE delta)

\* Variant: the distance to the weekday is not taken modulo 7.
nextWeekday_noWrap(date, weekday) ==
  addDays(date, weekday - getDay(date))

nextWeekday(date, weekday) ==
  LET currentDay == getDay(date)
  IN  IF currentDay = weekday
      THEN date
      ELSE addDays(date, (weekday - currentDay + 7) % 7)

(***************************************************************************)
(* formatGroupRange on a list of Dates or of strings.  An element that is  *)
(* a JavaScript string is written JSString("2025-03-01") so that typeof    *)
(* can tell it from a Date; toDate parses it as a local midnight.          *)
(***************************************************************************)
JSString(s) == [str |-> s]
typeof(d) == IF "str" \in DOMAIN d THEN "string" ELSE "object"
toDate(d) == IF typeof(d) = "string" THEN parseISO(d.str) ELSE d

\* Variant: the month of the last date is always printed.
formatGroupRange_alwaysBothMonths(dates) ==
  IF Len(dates) = 0 THEN ""
  ELSE LET first == toDate(dates[1])
           last == toDate(dates[Len(dates)])
       IN  IF Len(dates) = 1 THEN formatMMMd(first)
           ELSE formatMMMd(first) \o " - " \o formatMMMd(last)

formatGroupRange(dates) ==
  IF Len(dates) = 0 THEN ""
  ELSE LET first == toDate(dates[1])
           last == toDate(dates[Len(dates)])
       IN  IF Len(dates) = 1 THEN formatMMMd(first)
           ELSE IF getMonth(first) = getMonth(last)
                THEN formatMMMd(first) \o " - " \o formatd(last)
                ELSE formatMMMd(first) \o " - " \o formatMMMd(last)

(***************************************************************************)
(* Group generation, current library.                                      *)
(***************************************************************************)
\* Variant: the end of the range is treated as exclusive.
generateFlexibleGroups_exclusiveEnd(r) ==
  LET days == eachDayOfInterval(r.start, addDays(r.end, -1))
  IN  [i \in 1..Len(days) |->
         [dates |-> <<formatISO(days[i])>>,
          label |-> formatEEEMMMd(days[i]),
          range |-> formatMMMd(days[i])]]

generateFlexibleGroups(r) ==
  LET days == eachDayOfInterval(r.start, r.end)
  IN  [i \in 1..Len(days) |->
         [dates |-> <<formatISO(days[i])>>,
          label |-> formatEEEMMMd(days[i]),
          range |-> formatMMMd(days[i])]]

\* Variant: a Saturday whose Sunday is out of range is emitted alone.
RECURSIVE weekendLoop_truncating(_, _, _, _)
weekendLoop_truncating(current, r, weekendIndex, acc) ==
  IF DateLE(current, r.end)
  THEN LET saturday == current
           sunday == addDays(saturday, 1)
           kept == IF DateLE(sunday, r.end) THEN <<saturday, sunday>>
                   ELSE <<saturday>>
       IN  weekendLoop_truncating(addDays(current, 7), r, weekendIndex + 1,
             Append(acc,
               [dates |-> formatEach(kept),
                label |-> "Weekend " \o ToString(weekendIndex),
                range |-> formatGroupRange(kept)]))
  ELSE acc

RECURSIVE weekendLoop(_, _, _, _)
weekendLoop(current, r, weekendIndex, acc) ==
  IF DateLE(current, r.end)
  THEN LET saturday == current
           sunday == addDays(saturday, 1)
       IN  IF DateLE(sunday, r.end)
           THEN weekendLoop(addDays(current, 7), r, weekendIndex + 1,
                  Append(acc,
                    [dates |-> <<formatISO(saturday), formatISO(sunday)>>,
                     label |-> "Weekend " \o ToString(weekendIndex),
                     range |-> formatGroupRange(<<saturday, sunday>>)]))
           ELSE weekendLoop(addDays(current, 7), r, weekendIndex, acc)
  ELSE acc

\* Variant: nextSaturday is applied even when the range starts on a Saturday.
generateWeekendGroups_alwaysNext(r) ==
  weekendLoop(nextSaturday(r.start), r, 1, <<>>)

\* Variant: the first weekend is taken to start at range.start.
generateWeekendGroups_fromStart(r) ==
  weekendLoop(r.start, r, 1, <<>>)

generateWeekendGroups(r) ==
  LET current == IF ~isSaturday(r.start) THEN nextSaturday(r.start)
                 ELSE r.start
  IN  weekendLoop(current, r, 1, <<>>)

\* Variant: new groups are put in front of the list (unshift for push).
RECURSIVE weekdayRangeLoop_unshift(_, _, _, _, _, _)
weekdayRangeLoop_unshift(current, r, startDay, endDay, groupIndex, acc) ==
  LET span == calculateWeekdaySpan(startDay, endDay) IN
  IF DateLE(current, r.end)
  THEN LET groupEnd == addDays(current, span - 1)
       IN  IF DateLE(groupEnd, r.end)
           THEN weekdayRangeLoop_unshift(addDays(current, 7), r, startDay,
                  endDay, groupIndex + 1,
                  <<[dates |-> formatEach(eachDayOfInterval(current, groupEnd)),
                     label |-> getWeekdayRangeLabel(startDay, endDay,
                                                    groupIndex),
                     range |-> formatGroupRange(<<current, groupEnd>>)]>>
                    \o acc)
           ELSE weekdayRangeLoop_unshift(addDays(current, 7), r, startDay,
                  endDay, groupIndex, acc)
  ELSE acc

RECURSIVE weekdayRangeLoop(_, _, _, _, _, _)
weekdayRangeLoop(current, r, startDay, endDay, groupIndex, acc) ==
  LET span == calculateWeekdaySpan(startDay, endDay) IN
  IF DateLE(current, r.end)
  THEN LET groupEnd == addDays(current, span - 1)
       IN  IF DateLE(groupEnd, r.end)
           THEN weekdayRangeLoop(addDays(current, 7), r, startDay, endDay,
                  groupIndex + 1,
                  Append(acc,
                    [dates |-> formatEach(eachDayOfInterval(current, groupEnd)),
                     label |-> getWeekdayRangeLabel(startDay, endDay,
                                                    groupIndex),
                     range |-> formatGroupRange(<<current, groupEnd>>)]))
           ELSE weekdayRangeLoop(addDays(current, 7), r, startDay, endDay,
                  groupIndex, acc)
  ELSE acc

generateWeekdayRangeGroups(r, startDay, endDay) ==
  weekdayRangeLoop(startOfDay(nextWeekday(r.start, startDay)), r,
                   startDay, endDay, 1, <<>>)

generateDateGroups(p, r) ==
  CASE p.type = "flexible" -> generateFlexibleGroups(r)
    [] p.type = "weekend" -> generateWeekendGroups(r)
    [] p.type = "weekday-range" ->
         generateWeekdayRangeGroups(r, p.startDay, p.endDay)
    [] OTHER -> assertNever(p)

\* Variant: the weekday-range length ignores wrap-around.
getPatternDays_noWrap(p) ==
  CASE p.type = "weekend" -> 2
    [] p.type = "weekday-range" -> p.endDay - p.startDay + 1
    [] p.type = "flexible" -> 1
    [] OTHER -> assertNever(p)

getPatternDays(p) ==
  CASE p.type = "weekend" -> 2
    [] p.type = "weekday-range" -> calculateWeekdaySpan(p.startDay, p.endDay)
    [] p.type = "flexible" -> 1
    [] OTHER -> assertNever(p)

\* Variant: the index is taken as zero-based.
getGroupLabel_zeroBased(p, index) ==
  CASE p.type = "weekend" -> "Weekend " \o ToString(index - 1)
    [] p.type = "weekday-range" ->
         getWeekdayRangeLabel(p.startDay, p.endDay, index - 1)
    [] p.type = "flexible" -> "Day " \o ToString(index - 1)
    [] OTHER -> assertNever(p)

getGroupLabel(p, index) ==
  CASE p.type = "weekend" -> "Weekend " \o ToString(index)
    [] p.type = "weekday-range" ->
         getWeekdayRangeLabel(p.startDay, p.endDay, index)
    [] p.type = "flexible" -> "Day " \o ToString(index)
    [] OTHER -> assertNever(p)

RECURSIVE countWeekendLoop(_, _, _)
countWeekendLoop(current, r, count) ==
  IF DateLE(addDays(current, 1), r.end)
  THEN countWeekendLoop(addDays(current, 7), r, count + 1)
  ELSE count

RECURSIVE countWeekdayRangeLoop(_, _, _, _)
countWeekdayRangeLoop(current, r, span, count) ==
  IF DateLE(addDays(current, span - 1), r.end)
  THEN countWeekdayRangeLoop(addDays(current, 7), r, span, count + 1)
  ELSE count

\* Math.floor((end.getTime() - start.getTime()) / (1000*60*60*24)) + 1;
\* \div rounds towards minus infinity, as Math.floor does.
totalDays(r) == ((getTime(r.end) - getTime(r.start)) \div HoursPerDay) + 1

countPossibleGroups(p, r) ==
  CASE p.type = "weekend" ->
         countWeekendLoop(IF ~isSaturday(r.start) THEN nextSaturday(r.start)
                          ELSE r.start, r, 0)
    [] p.type = "weekday-range" ->
         countWeekdayRangeLoop(startOfDay(nextWeekday(r.start, p.startDay)),
           r, calculateWeekdaySpan(p.startDay, p.endDay), 0)
    [] p.type = "flexible" -> totalDays(r)
    [] OTHER -> assertNever(p)

getRemainingDays(p, r) ==
  IF p.type = "weekend" \/ p.type = "weekday-range" THEN 0
  ELSE IF p.type = "flexible" THEN 0
  ELSE assertNever(p)

\* The calls that end in assertNever, that is, that throw.
reachesAssertNever(p) ==
  p.type \notin {"flexible", "weekend", "weekday-range"}

(***************************************************************************)
(* Group generation, legacy library (fixed-length chunks).                 *)
(***************************************************************************)
\* The switch statements of the legacy library have no default branch: a
\* pattern of another type falls through them and the function returns
\* undefined.
legacy_switchHasCase(p) ==
  p.type \in {"weekend", "long-weekend", "week", "two-weeks", "custom",
              "flexible"}

legacy_getPatternDays(p) ==
  CASE p.type = "weekend" -> 2
    [] p.type = "long-weekend" -> p.days
    [] p.type = "week" -> 7
    [] p.type = "two-weeks" -> 14
    [] p.type = "custom" -> p.days
    [] p.type = "flexible" -> 1
    [] OTHER -> Undefined

legacy_getGroupLabel(p, index) ==
  CASE p.type = "weekend" -> "Weekend " \o ToString(index)
    [] p.type = "long-weekend" -> "Long Weekend " \o ToString(index)
    [] p.type = "week" -> "Week " \o ToString(index)
    [] p.type = "two-weeks" -> "Fortnight " \o ToString(index)
    [] p.type = "custom" -> "Period " \o ToString(index)
    [] p.type = "flexible" -> "Day " \o ToString(index)
    [] OTHER -> Undefined

\* Variant: the end of a chunk is one day too far (chunkSize for chunkSize-1).
RECURSIVE chunkLoop_longChunk(_, _, _, _, _, _)
chunkLoop_longChunk(current, r, chunkSize, p, groupIndex, acc) ==
  IF DateLE(current, r.end)
  THEN LET chunkEnd == addDays(current, chunkSize)
       IN  IF DateLE(chunkEnd, r.end)
           THEN chunkLoop_longChunk(addDays(current, chunkSize), r,
                  chunkSize, p, groupIndex + 1,
                  Append(acc,
                    [dates |-> formatEach(eachDayOfInterval(current, chunkEnd)),
                     label |-> legacy_getGroupLabel(p, groupIndex),
                     range |-> formatGroupRange(<<current, chunkEnd>>)]))
           ELSE chunkLoop_longChunk(addDays(current, chunkSize), r,
                  chunkSize, p, groupIndex, acc)
  ELSE acc

RECURSIVE chunkLoop(_, _, _, _, _, _)
chunkLoop(current, r, chunkSize, p, groupIndex, acc) ==
  IF DateLE(current, r.end)
  THEN LET chunkEnd == addDays(current, chunkSize - 1)
       IN  IF DateLE(chunkEnd, r.end)
           THEN chunkLoop(addDays(current, chunkSize), r, chunkSize, p,
                  groupIndex + 1,
                  Append(acc,
                    [dates |-> formatEach(eachDayOfInterval(current, chunkEnd)),
                     label |-> legacy_getGroupLabel(p, groupIndex),
                     range |-> formatGroupRange(<<current, chunkEnd>>)]))
           ELSE chunkLoop(addDays(current, chunkSize), r, chunkSize, p,
                  groupIndex, acc)
  ELSE acc

\* The loop when chunkSize is undefined: addDays(current, NaN) is an
\* Invalid Date and every comparison with it is false, so no chunk is
\* pushed and the loop ends after its first pass.
chunkLoopNaN(current, r) == <<>>

generateChunkedGroups(r, chunkSize, p) ==
  IF legacy_switchHasCase(p)
  THEN chunkLoop(startOfDay(r.start), r, chunkSize, p, 1, <<>>)
  ELSE chunkLoopNaN(startOfDay(r.start), r)

legacy_generateDateGroups(p, r) ==
  IF p.type = "flexible" THEN generateFlexibleGroups(r)
  ELSE IF p.type = "weekend" THEN generateWeekendGroups(r)
  ELSE generateChunkedGroups(r, legacy_getPatternDays(p), p)

legacy_countPossibleGroups(p, r) ==
  IF p.type = "weekend"
  THEN countWeekendLoop(IF ~isSaturday(r.start) THEN nextSaturday(r.start)
                        ELSE r.start, r, 0)
  ELSE IF legacy_switchHasCase(p)
  THEN totalDays(r) \div legacy_getPatternDays(p)
  ELSE NaN

legacy_getRemainingDays(p, r) ==
  IF p.type = "weekend" THEN 0
  ELSE IF legacy_switchHasCase(p)
  THEN totalDays(r) % legacy_getPatternDays(p)
  ELSE NaN

(***************************************************************************)
(* The inputs: well-formed patterns (PatternSchema of each library) and    *)
(* ranges as the callers build them, both bounds at local midnight and     *)
(* start <= end.                                                           *)
(***************************************************************************)
Weekdays == 0..6

CurrentPatterns ==
  {[type |-> "flexible"], [type |-> "weekend"]}
    \cup {[type |-> "weekday-range", startDay |-> s, endDay |-> e] :
            s \in Weekdays, e \in Weekdays}

LegacyPatterns ==
  {[type |-> "flexible"], [type |-> "weekend"], [type |-> "week"],
   [type |-> "two-weeks"]}
    \cup {[type |-> "long-weekend", days |-> n] : n \in {3, 4}}
    \cup {[type |-> "custom", days |-> n] : n \in 1..MaxCustomDays}

PatternsOf(l) == IF l = "current" THEN CurrentPatterns ELSE LegacyPatterns

Ranges ==
  {[start |-> Date(s, 0), end |-> Date(s + n, 0)] :
     s \in 0..MaxStartDay, n \in 0..MaxRangeDays}

NoValue == "none"

\* Nothing called yet.
CallIdle ==
  /\ pc = "input"
  /\ groups = <<>>
  /\ op = NoValue
  /\ arg = 0
  /\ ret = 0
  /\ threw = FALSE

\* The parts of the state a specification does not use.
DateIdle ==
  /\ lib = "current"
  /\ pattern = [type |-> "flexible"]
  /\ range = [start |-> Date(0, 0), end |-> Date(0, 0)]

PickerIdle ==
  /\ excludedGroups = {}
  /\ doodleDates = <<>>

RateIdle ==
  /\ requests = <<>>
  /\ now = 0
  /\ cleanupIntervalId = "null"
  /\ limits = <<>>
  /\ hist = <<>>

PollIdle ==
  /\ polls = <<>>
  /\ storedPolls = <<>>
  /\ idsIssued = 0
  /\ repeats = 0

LoopIdle ==
  /\ loopCurrent = Date(0, 0)
  /\ iterations = 0

DbIdle ==
  /\ doodles = <<>>
  /\ votes = {}
  /\ accommodations = <<>>

CastIdle ==
  /\ castPc = <<>>
  /\ voteCount = <<>>

AppIdle ==
  /\ PollIdle
  /\ LoopIdle
  /\ DbIdle
  /\ CastIdle

Init ==
  /\ tz \in TimeZones
  /\ lib \in {"current", "legacy"}
  /\ pattern \in PatternsOf(lib)
  /\ range \in Ranges
  /\ CallIdle
  /\ PickerIdle
  /\ AppIdle
  /\ RateIdle

(***************************************************************************)
(* One action per exported function, applied to the chosen input.          *)
(***************************************************************************)
\* A call ends by throwing when it reaches assertNever (current library)
\* or when eachDayOfInterval rejects the interval (flexible, date-fns 2).
GenerateDateGroups ==
  /\ pc = "input"
  /\ \E version \in DateFnsVersions :
       LET throws ==
             \/ lib = "current" /\ reachesAssertNever(pattern)
             \/ /\ pattern.type = "flexible"
                /\ eachDayOfIntervalThrows(version, range.start, range.end)
       IN  /\ threw' = throws
           /\ groups' = IF throws THEN <<>>
                        ELSE IF lib = "current"
                        THEN generateDateGroups(pattern, range)
                        ELSE legacy_generateDateGroups(pattern, range)
  /\ pc' = "generated"
  /\ op' = "generateDateGroups"
  /\ UNCHANGED <<tz, lib, pattern, range, arg, ret, pickerVars, rateVars, appVars>>

CountPossibleGroups ==
  /\ pc = "generated"
  /\ ret' = IF lib = "current" THEN countPossibleGroups(pattern, range)
            ELSE legacy_countPossibleGroups(pattern, range)
  /\ threw' = (lib = "current" /\ reachesAssertNever(pattern))
  /\ op' = "countPossibleGroups"
  /\ arg' = 0
  /\ UNCHANGED <<dateVars, pickerVars, rateVars, appVars>>

GetPatternDays ==
  /\ pc = "generated"
  /\ ret' = IF lib = "current" THEN getPatternDays(pattern)
            ELSE legacy_getPatternDays(pattern)
  /\ threw' = (lib = "current" /\ reachesAssertNever(pattern))
  /\ op' = "getPatternDays"
  /\ arg' = 0
  /\ UNCHANGED <<dateVars, pickerVars, rateVars, appVars>>

GetGroupLabel ==
  /\ pc = "generated"
  /\ \E index \in 1..MaxIndex :
       /\ ret' = IF lib = "current" THEN getGroupLabel(pattern, index)
                 ELSE legacy_getGroupLabel(pattern, index)
       /\ arg' = index
  /\ threw' = (lib = "current" /\ reachesAssertNever(pattern))
  /\ op' = "getGroupLabel"
  /\ UNCHANGED <<dateVars, pickerVars, rateVars, appVars>>

GetRemainingDays ==
  /\ pc = "generated"
  /\ ret' = IF lib = "current" THEN getRemainingDays(pattern, range)
            ELSE legacy_getRemainingDays(pattern, range)
  /\ threw' = (lib = "current" /\ reachesAssertNever(pattern))
  /\ op' = "getRemainingDays"
  /\ arg' = 0
  /\ UNCHANGED <<dateVars, pickerVars, rateVars, appVars>>

Next ==
  \/ GenerateDateGroups
  \/ CountPossibleGroups
  \/ GetPatternDays
  \/ GetGroupLabel
  \/ GetRemainingDays

Spec == Init /\ [][Next]_vars

(***************************************************************************)
(* Vocabulary of the properties.                                           *)
(***************************************************************************)
Generated == pc = "generated"

\* The calendar day (index) an emitted ISO string names.
DayOf(iso) == parseISO(iso).day
FirstDay(g) == DayOf(g.dates[1])
LastDay(g) == DayOf(g.dates[Len(g.dates)])
WeekdayOfDay(d) == (d + 6) % 7

\* The nominal length of one period, from the pattern tables of the spec.
PeriodLength(p) ==
  CASE p.type = "flexible" -> 1
    [] p.type = "weekend" -> 2
    [] p.type = "weekday-range" ->
         IF p.endDay >= p.startDay THEN p.endDay - p.startDay + 1
         ELSE (7 - p.startDay) + p.endDay + 1
    [] p.type = "week" -> 7
    [] p.type = "two-weeks" -> 14
    [] p.type \in {"long-weekend", "custom"} -> p.days

InclusiveDays == range.end.day - range.start.day + 1

(***************************************************************************)
(* C1: for every well-formed pattern and every range with start <= end,    *)
(* both bounds at midnight, countPossibleGroups(pattern, range) equals the *)
(* number of groups generateDateGroups(pattern, range) returns.            *)
(***************************************************************************)
C1_CountAgreesWithGenerate ==
  (Generated /\ op = "countPossibleGroups") => ret = Len(groups)

(***************************************************************************)
(* C2: every date of every generated group lies in [range.start,           *)
(* range.end], and a period that does not fit before range.end is absent:  *)
(* no group is emitted with fewer dates than a full period.                *)
(***************************************************************************)
C2_GroupsInsideRangeAndComplete ==
  Generated =>
    \A i \in 1..Len(groups) :
      /\ Len(groups[i].dates) = PeriodLength(pattern)
      /\ \A j \in 1..Len(groups[i].dates) :
           /\ range.start.day <= DayOf(groups[i].dates[j])
           /\ DayOf(groups[i].dates[j]) <= range.end.day

\* A range whose last period is cut by range.end, with groups before it.
C2_Witness ==
  /\ Generated
  /\ pattern.type = "weekend"
  /\ WeekdayOfDay(range.end.day) = 6
  /\ Len(groups) >= 2

(***************************************************************************)
(* C3: the generated groups are in strictly increasing order of their      *)
(* first date, and the dates inside each group are in increasing order.    *)
(***************************************************************************)
C3_GroupsChronological ==
  Generated =>
    /\ \A i \in 1..(Len(groups) - 1) :
         FirstDay(groups[i]) < FirstDay(groups[i + 1])
    /\ \A i \in 1..Len(groups) :
         \A j \in 1..(Len(groups[i].dates) - 1) :
           DayOf(groups[i].dates[j]) < DayOf(groups[i].dates[j + 1])

C3_Witness ==
  /\ Generated
  /\ pattern.type = "weekday-range"
  /\ Len(groups) >= 3
  /\ Len(groups[1].dates) >= 4

(***************************************************************************)
(* C4: for every pattern, flexible included, the label of the i-th         *)
(* generated group (i counted from 1) equals getGroupLabel(pattern, i).    *)
(***************************************************************************)
C4_LabelsMatchGetGroupLabel ==
  (Generated /\ op = "getGroupLabel" /\ arg <= Len(groups)) =>
    groups[arg].label = ret

(***************************************************************************)
(* C4, amended: for every pattern other than flexible, the label of the    *)
(* i-th generated group equals getGroupLabel(pattern, i).                  *)
(***************************************************************************)
C4_LabelsMatchExceptFlexible ==
  (Generated /\ op = "getGroupLabel" /\ arg <= Len(groups)
     /\ pattern.type # "flexible") =>
    groups[arg].label = ret

C4_Witness ==
  /\ Generated
  /\ op = "getGroupLabel"
  /\ pattern.type = "weekday-range"
  /\ arg = 3
  /\ Len(groups) >= 3
  /\ groups[arg].label = ret

(***************************************************************************)
(* C5: for a weekday-range pattern with any startDay and endDay in 0..6,   *)
(* every generated group has exactly calculateWeekdaySpan(startDay,        *)
(* endDay) dates, its first date falls on weekday startDay and its last    *)
(* date on weekday endDay, wrap-around ranges (endDay < startDay) included.*)
(***************************************************************************)
C5_WeekdayRangeSpan ==
  (Generated /\ pattern.type = "weekday-range") =>
    \A i \in 1..Len(groups) :
      /\ Len(groups[i].dates)
           = calculateWeekdaySpan(pattern.startDay, pattern.endDay)
      /\ WeekdayOfDay(FirstDay(groups[i])) = pattern.startDay
      /\ WeekdayOfDay(LastDay(groups[i])) = pattern.endDay

C5_Witness ==
  /\ Generated
  /\ pattern.type = "weekday-range"
  /\ pattern.endDay < pattern.startDay
  /\ Len(groups) >= 2

(***************************************************************************)
(* C6: every generated group has a non-empty dates list made of            *)
(* consecutive calendar days without duplicates, and its length equals     *)
(* getPatternDays(pattern): 1 for flexible, 2 for weekend, the weekday     *)
(* span for weekday-range, the chunk size for the legacy patterns.         *)
(***************************************************************************)
C6_GroupLengthIsPatternDays ==
  (Generated /\ op = "getPatternDays") =>
    /\ ret = PeriodLength(pattern)
    /\ \A i \in 1..Len(groups) :
         /\ Len(groups[i].dates) >= 1
         /\ Len(groups[i].dates) = ret
         /\ \A j \in 1..(Len(groups[i].dates) - 1) :
              DayOf(groups[i].dates[j + 1]) = DayOf(groups[i].dates[j]) + 1

C6_Witness ==
  /\ Generated
  /\ op = "getPatternDays"
  /\ pattern.type = "weekday-range"
  /\ pattern.endDay < pattern.startDay
  /\ ret >= 3
  /\ Len(groups) >= 1

(***************************************************************************)
(* C7: for the weekend pattern the generated groups are exactly the        *)
(* Saturday-Sunday pairs with Saturday >= range.start and Sunday <=        *)
(* range.end, one group per pair, in order.                                *)
(***************************************************************************)
WeekendSaturdays ==
  {d \in range.start.day..range.end.day :
     WeekdayOfDay(d) = 6 /\ d + 1 <= range.end.day}

C7_WeekendGroupsExact ==
  (Generated /\ pattern.type = "weekend") =>
    /\ Len(groups) = Cardinality(WeekendSaturdays)
    /\ {FirstDay(groups[i]) : i \in 1..Len(groups)} = WeekendSaturdays
    /\ \A i \in 1..Len(groups) :
         groups[i].dates = <<IsoOfDay[FirstDay(groups[i])],
                             IsoOfDay[FirstDay(groups[i]) + 1]>>

\* The range starts on a Sunday and ends on a Saturday: neither is used.
C7_Witness ==
  /\ Generated
  /\ pattern.type = "weekend"
  /\ WeekdayOfDay(range.start.day) = 0
  /\ WeekdayOfDay(range.end.day) = 6
  /\ Len(groups) >= 2

(***************************************************************************)
(* C8: for a weekday-range pattern no weekly occurrence is skipped: every  *)
(* date d >= range.start on weekday startDay with d + span - 1 <=          *)
(* range.end is the first date of exactly one group, and every group       *)
(* starts at such a date.                                                  *)
(***************************************************************************)
WeekdayRangeStarts ==
  {d \in range.start.day..range.end.day :
     /\ WeekdayOfDay(d) = pattern.startDay
     /\ d + PeriodLength(pattern) - 1 <= range.end.day}

C8_WeekdayRangeNoOccurrenceSkipped ==
  (Generated /\ pattern.type = "weekday-range") =>
    /\ Len(groups) = Cardinality(WeekdayRangeStarts)
    /\ {FirstDay(groups[i]) : i \in 1..Len(groups)} = WeekdayRangeStarts

\* The range starts exactly on startDay and its last occurrence is cut.
C8_Witness ==
  /\ Generated
  /\ pattern.type = "weekday-range"
  /\ WeekdayOfDay(range.start.day) = pattern.startDay
  /\ Len(groups) >= 2
  /\ \E d \in range.start.day..range.end.day :
       /\ WeekdayOfDay(d) = pattern.startDay
       /\ d + PeriodLength(pattern) - 1 > range.end.day

(***************************************************************************)
(* C9: for the flexible pattern and start <= end, generateDateGroups       *)
(* returns exactly one single-date group per calendar day of [range.start, *)
(* range.end], both ends included: (end - start in days) + 1 groups.       *)
(***************************************************************************)
C9_FlexibleOneGroupPerDay ==
  (Generated /\ pattern.type = "flexible") =>
    /\ Len(groups) = InclusiveDays
    /\ \A i \in 1..Len(groups) :
         groups[i].dates = <<IsoOfDay[range.start.day + i - 1]>>

\* A range of several days that spans the change of month.
C9_Witness ==
  /\ Generated
  /\ pattern.type = "flexible"
  /\ Len(groups) >= 3
  /\ groups[1].dates[1] = "2025-03-07"
  /\ groups[Len(groups)].dates[1] = "2025-04-02"

(***************************************************************************)
(* C10: for the legacy patterns week, two-weeks, long-weekend and custom   *)
(* with chunk size n, the k-th generated group covers exactly the days     *)
(* range.start + (k-1)*n .. range.start + k*n - 1, and the number of       *)
(* groups is floor(totalDays / n), totalDays the inclusive day count.      *)
(***************************************************************************)
ChunkTypes == {"week", "two-weeks", "long-weekend", "custom"}

C10_LegacyChunksExact ==
  (Generated /\ lib = "legacy" /\ pattern.type \in ChunkTypes) =>
    LET n == PeriodLength(pattern) IN
    /\ Len(groups) = InclusiveDays \div n
    /\ \A k \in 1..Len(groups) :
         groups[k].dates =
           [j \in 1..n |-> IsoOfDay[range.start.day + (k - 1) * n + j - 1]]

\* Two fortnights and a remainder that is dropped.
C10_Witness ==
  /\ Generated
  /\ lib = "legacy"
  /\ pattern.type = "two-weeks"
  /\ Len(groups) = 2
  /\ InclusiveDays % 14 > 0

(***************************************************************************)
(* The weekday helpers called on their own: SpecWeekday draws two weekday  *)
(* numbers, a date (any day of two weeks around the spring-forward day, at *)
(* midnight or at noon) and a target weekday, and calls one helper.        *)
(***************************************************************************)
MaxDateDay == 13
TimesOfDay == {0, 12}

InitWeekday ==
  /\ tz \in TimeZones
  /\ DateIdle
  /\ CallIdle
  /\ PickerIdle
  /\ AppIdle
  /\ RateIdle

CalculateWeekdaySpan ==
  /\ pc = "input"
  /\ \E startDay \in Weekdays, endDay \in Weekdays :
       /\ arg' = [startDay |-> startDay, endDay |-> endDay]
       /\ ret' = calculateWeekdaySpan(startDay, endDay)
  /\ op' = "calculateWeekdaySpan"
  /\ pc' = "called"
  /\ UNCHANGED <<tz, lib, pattern, range, groups, threw, pickerVars, rateVars, appVars>>

NextWeekday ==
  /\ pc = "input"
  /\ \E d \in 0..MaxDateDay, t \in TimesOfDay, weekday \in Weekdays :
       /\ arg' = [date |-> Date(d, t), weekday |-> weekday]
       /\ ret' = nextWeekday(Date(d, t), weekday)
  /\ op' = "nextWeekday"
  /\ pc' = "called"
  /\ UNCHANGED <<tz, lib, pattern, range, groups, threw, pickerVars, rateVars, appVars>>

NextOfWeekday == CalculateWeekdaySpan \/ NextWeekday

SpecWeekday == InitWeekday /\ [][NextOfWeekday]_vars

(***************************************************************************)
(* C11: for all startDay and endDay in 0..6, calculateWeekdaySpan returns  *)
(* endDay - startDay + 1 when endDay >= startDay and                       *)
(* 7 - startDay + endDay + 1 otherwise; the result is always in 1..7 and   *)
(* is 1 when startDay = endDay.                                            *)
(***************************************************************************)
C11_WeekdaySpanFormula ==
  op = "calculateWeekdaySpan" =>
    /\ arg.endDay >= arg.startDay => ret = arg.endDay - arg.startDay + 1
    /\ arg.endDay < arg.startDay => ret = 7 - arg.startDay + arg.endDay + 1
    /\ ret \in 1..7
    /\ arg.startDay = arg.endDay => ret = 1

\* Friday to Monday: the span wraps around the end of the week.
C11_Witness ==
  /\ op = "calculateWeekdaySpan"
  /\ arg.startDay = 5
  /\ arg.endDay = 1
  /\ ret = 4

(***************************************************************************)
(* C12: for every date and every weekday in 0..6, nextWeekday(date,        *)
(* weekday) is the smallest date >= date that falls on that weekday: the   *)
(* input itself when it already matches, otherwise a date 1 to 6 days      *)
(* later (same time of day), no day in between falling on the weekday.     *)
(***************************************************************************)
C12_NextWeekdayIsSmallest ==
  op = "nextWeekday" =>
    LET d == arg.date
        ahead == ret.day - d.day
    IN  /\ WeekdayOfDay(ret.day) = arg.weekday
        /\ ret.tod = d.tod
        /\ getTime(ret) >= getTime(d)
        /\ WeekdayOfDay(d.day) = arg.weekday => ret = d
        /\ WeekdayOfDay(d.day) # arg.weekday => ahead \in 1..6
        /\ \A k \in 0..(ahead - 1) : WeekdayOfDay(d.day + k) # arg.weekday

\* From a Thursday noon to the Tuesday after, across the end of the week
\* and across the spring-forward night.
C12_Witness ==
  /\ op = "nextWeekday"
  /\ tz = "America/New_York"
  /\ arg.date = Date(5, 12)
  /\ arg.weekday = 2
  /\ ret = Date(10, 12)

(***************************************************************************)
(* C13: getRemainingDays returns 0 for every range when the pattern is     *)
(* weekend, weekday-range or flexible, and totalDays mod chunkSize for the *)
(* legacy fixed-chunk patterns, totalDays being the inclusive day count of *)
(* the range.                                                              *)
(***************************************************************************)
C13_RemainingDays ==
  op = "getRemainingDays" =>
    IF pattern.type \in {"weekend", "weekday-range", "flexible"}
    THEN ret = 0
    ELSE ret = InclusiveDays % PeriodLength(pattern)

(***************************************************************************)
(* Inverted ranges: SpecInverted runs the library on ranges whose start is *)
(* 1 to MaxInvertedDays days after their end, both bounds at midnight.     *)
(***************************************************************************)
MaxInvertedDays == 9

InvertedRanges ==
  {[start |-> Date(e + n, 0), end |-> Date(e, 0)] :
     e \in 0..MaxStartDay, n \in 1..MaxInvertedDays}

InitInverted ==
  /\ tz \in TimeZones
  /\ lib \in {"current", "legacy"}
  /\ pattern \in PatternsOf(lib)
  /\ range \in InvertedRanges
  /\ CallIdle
  /\ PickerIdle
  /\ AppIdle
  /\ RateIdle

SpecInverted == InitInverted /\ [][Next]_vars

(***************************************************************************)
(* C14: for every pattern, flexible included, generateDateGroups called on *)
(* an inverted range (range.start > range.end) returns an empty list and   *)
(* does not throw.                                                         *)
(***************************************************************************)
C14_InvertedRangeEmpty ==
  (op = "generateDateGroups" /\ getTime(range.start) > getTime(range.end)) =>
    /\ ~threw
    /\ groups = <<>>

(***************************************************************************)
(* Patterns a library has no case for: SpecUnknown hands each library the  *)
(* patterns of the other one (polls stored by one version and read by the  *)
(* other) and a pattern type neither knows.                                *)
(***************************************************************************)
UnhandledPatterns(l) ==
  {[type |-> "month"]} \union
    (IF l = "current"
     THEN {p \in LegacyPatterns : reachesAssertNever(p)}
     ELSE {p \in CurrentPatterns : ~legacy_switchHasCase(p)})

InitUnknown ==
  /\ tz \in TimeZones
  /\ lib \in {"current", "legacy"}
  /\ pattern \in UnhandledPatterns(lib)
  /\ range \in Ranges
  /\ CallIdle
  /\ PickerIdle
  /\ AppIdle
  /\ RateIdle

SpecUnknown == InitUnknown /\ [][Next]_vars

(***************************************************************************)
(* C15: given a pattern whose type is not one of the handled variants,     *)
(* each dispatcher (generateDateGroups, getPatternDays, getGroupLabel,     *)
(* countPossibleGroups, getRemainingDays) fails with an error instead of   *)
(* returning a default or empty result.                                    *)
(***************************************************************************)
HandledTypes(l) ==
  IF l = "current"
  THEN {"flexible", "weekend", "weekday-range"}
  ELSE {"flexible", "weekend", "long-weekend", "week", "two-weeks", "custom"}

Dispatchers ==
  {"generateDateGroups", "getPatternDays", "getGroupLabel",
   "countPossibleGroups", "getRemainingDays"}

C15_UnhandledPatternFails ==
  (op \in Dispatchers /\ pattern.type \notin HandledTypes(lib)) => threw

(***************************************************************************)
(* formatGroupRange called on its own: SpecFormat draws a list of up to    *)
(* MaxListLen days around the end of March, in any order, given as Dates   *)
(* or as ISO strings.                                                      *)
(***************************************************************************)
MaxListLen == 3
FirstFormatDay == 28
LastFormatDay == 34
FormatDays == FirstFormatDay..LastFormatDay

DayLists == UNION {[1..n -> FormatDays] : n \in 0..MaxListLen}

\* The list of days as the caller passes it.
AsInput(kind, t, days) ==
  [i \in 1..Len(days) |->
     IF kind = "string" THEN JSString(IsoOfDay[days[i]])
     ELSE Date(days[i], t)]

InitFormat ==
  /\ tz \in TimeZones
  /\ DateIdle
  /\ CallIdle
  /\ PickerIdle
  /\ AppIdle
  /\ RateIdle

FormatGroupRange ==
  /\ pc = "input"
  /\ \E kind \in {"string", "object"}, t \in TimesOfDay, days \in DayLists :
       /\ arg' = [kind |-> kind, tod |-> t, days |-> days]
       /\ ret' = formatGroupRange(AsInput(kind, t, days))
  /\ op' = "formatGroupRange"
  /\ pc' = "called"
  /\ UNCHANGED <<tz, lib, pattern, range, groups, threw, pickerVars, rateVars, appVars>>

SpecFormat == InitFormat /\ [][FormatGroupRange]_vars

(***************************************************************************)
(* C16: formatGroupRange returns the empty string for an empty list, the   *)
(* month-and-day of the date for a one-element list, and for longer lists  *)
(* a string built only from the first and last date: month once with both  *)
(* day numbers when they share a month, both months with their day numbers *)
(* otherwise; changing interior dates never changes the result.            *)
(***************************************************************************)
\* Day 0 is March 1st; March has 31 days.
MonthOf(day) == IF day <= 30 THEN "Mar" ELSE "Apr"
DayNumberOf(day) == IF day <= 30 THEN day + 1 ELSE day - 30
MonthAndDayOf(day) == MonthOf(day) \o " " \o ToString(DayNumberOf(day))

C16_FormatGroupRange ==
  op = "formatGroupRange" =>
    LET days == arg.days
        n == Len(days)
    IN  /\ n = 0 => ret = ""
        /\ n = 1 => ret = MonthAndDayOf(days[1])
        /\ (n >= 2 /\ MonthOf(days[1]) = MonthOf(days[n])) =>
             ret = MonthAndDayOf(days[1]) \o " - "
                     \o ToString(DayNumberOf(days[n]))
        /\ (n >= 2 /\ MonthOf(days[1]) # MonthOf(days[n])) =>
             ret = MonthAndDayOf(days[1]) \o " - " \o MonthAndDayOf(days[n])
        /\ \A i \in 2..(n - 1), m \in FormatDays :
             formatGroupRange(
               AsInput(arg.kind, arg.tod, [days EXCEPT ![i] = m])) = ret

\* Three ISO strings from March 30th to April 2nd.
C16_Witness ==
  /\ op = "formatGroupRange"
  /\ arg.kind = "string"
  /\ arg.days = <<29, 30, 32>>
  /\ ret = "Mar 30 - Apr 2"

(***************************************************************************)
(* Creating a poll in pattern mode and viewing it: SpecPicker.             *)
(* CalendarPicker generates dateGroups for the selected pattern and range, *)
(* the organizer toggles groups in and out of excludedGroups, the hidden   *)
(* "dates" input of the form carries the dates of the groups that are not  *)
(* excluded, createDoodle stores them with the pattern, and the vote view  *)
(* builds one column per stored group.                                     *)
(***************************************************************************)
MaxPickerDays == 20

PickerPatterns == {p \in CurrentPatterns : p.type # "flexible"}

PickerRanges ==
  {[start |-> Date(s, 0), end |-> Date(s + n, 0)] :
     s \in 0..MaxStartDay, n \in 0..MaxPickerDays}

InitPicker ==
  /\ tz \in TimeZones
  /\ lib = "current"
  /\ pattern \in PickerPatterns
  /\ range \in PickerRanges
  /\ CallIdle
  /\ PickerIdle
  /\ AppIdle
  /\ RateIdle

\* dateGroups.filter((_, i) => !excludedGroups.has(i)).map((g) => g.dates);
\* the indexes of excludedGroups count from 0.
RECURSIVE filteredDates(_, _, _)
filteredDates(dateGroups, excluded, i) ==
  IF i > Len(dateGroups) THEN <<>>
  ELSE (IF (i - 1) \in excluded THEN <<>> ELSE <<dateGroups[i].dates>>)
         \o filteredDates(dateGroups, excluded, i + 1)

\* handleRangeSelect with a complete range in pattern mode: the groups are
\* generated and the exclusions are reset.
HandleRangeSelect ==
  /\ pc = "input"
  /\ groups' = generateDateGroups(pattern, range)
  /\ excludedGroups' = {}
  /\ pc' = "picking"
  /\ op' = "handleRangeSelect"
  /\ UNCHANGED <<tz, lib, pattern, range, arg, ret, threw, doodleDates,
                 rateVars, appVars>>

\* handleToggleGroup(index), index the position of a group button.
HandleToggleGroup ==
  /\ pc = "picking"
  /\ \E index \in 0..(Len(groups) - 1) :
       /\ excludedGroups' = IF index \in excludedGroups
                            THEN excludedGroups \ {index}
                            ELSE excludedGroups \union {index}
       /\ arg' = index
  /\ op' = "handleToggleGroup"
  /\ UNCHANGED <<dateVars, ret, threw, doodleDates, rateVars, appVars>>

\* createDoodle on the submitted form: DatesSchema wants at least one
\* group, otherwise the action answers with an error and stores nothing.
CreateDoodle ==
  /\ pc = "picking"
  /\ LET dates == filteredDates(groups, excludedGroups, 1)
     IN  IF Len(dates) >= 1
         THEN /\ doodleDates' = dates
              /\ pc' = "stored"
         ELSE /\ doodleDates' = doodleDates
              /\ pc' = "rejected"
  /\ op' = "createDoodle"
  /\ UNCHANGED <<tz, lib, pattern, range, groups, arg, ret, threw,
                 excludedGroups, rateVars, appVars>>

\* The columns of the vote view for grouped dates.
VoteGridColumns ==
  [index \in 0..(Len(doodleDates) - 1) |->
     [key |-> ToString(index),
      header |-> getGroupLabel(pattern, index + 1),
      subheader |->
        formatGroupRange(
          [j \in 1..Len(doodleDates[index + 1]) |->
             JSString(doodleDates[index + 1][j])])]]

VoteGrid ==
  /\ pc = "stored"
  /\ ret' = [i \in 1..Len(doodleDates) |-> VoteGridColumns[i - 1]]
  /\ pc' = "rendered"
  /\ op' = "VoteGrid"
  /\ UNCHANGED <<tz, lib, pattern, range, groups, arg, threw, pickerVars,
                 rateVars, appVars>>

NextPicker ==
  \/ HandleRangeSelect
  \/ HandleToggleGroup
  \/ CreateDoodle
  \/ VoteGrid

SpecPicker == InitPicker /\ [][NextPicker]_vars

(***************************************************************************)
(* C17: for every poll created in pattern mode through CalendarPicker,     *)
(* whichever groups the organizer excluded, the label the vote views       *)
(* derive for the stored group at zero-based index i,                      *)
(* getGroupLabel(pattern, i + 1), equals the label generateDateGroups gave *)
(* that same group when the poll was created.                              *)
(***************************************************************************)
\* The label the picker showed for the group with these dates.
CreatedLabel(dates) ==
  (CHOOSE g \in {groups[k] : k \in 1..Len(groups)} : g.dates = dates).label

C17_StoredLabelsReproducible ==
  pc = "rendered" =>
    \A i \in 1..Len(doodleDates) :
      ret[i].header = CreatedLabel(doodleDates[i])

(***************************************************************************)
(* The rate limiter.  requests is the Map of the module, a function from   *)
(* the keys that have an entry to {count, resetTime}; now is Date.now() in *)
(* milliseconds; cleanupIntervalId is "null" or "timer".  Each key is      *)
(* always called with the same maxRequests and windowMs (limits), as the   *)
(* callers do.                                                             *)
(***************************************************************************)
MsPerSecond == 1000

MaxNow == 2500
TickMs == 500
MaxMaxRequests == 2
MaxCalls == 3

Keys == {"203.0.113.7", "203.0.113.7:accommodation:vote"}
WindowChoices == {2 * TickMs, 3 * TickMs}
LimitChoices == [maxRequests : 0..MaxMaxRequests, windowMs : WindowChoices]

\* Math.ceil(a / b) for b > 0.
ceilDiv(a, b) == -((-a) \div b)

\* Map.prototype.set, Map.prototype.delete for a set of keys.
MapSet(m, k, v) == [x \in DOMAIN m \union {k} |-> IF x = k THEN v ELSE m[x]]
MapDelete(m, ks) == [x \in DOMAIN m \ ks |-> m[x]]

\* Variant: an entry already counts as expired at its resetTime.
noLiveEntry_expiresAtReset(m, ip, t) ==
  ip \notin DOMAIN m \/ t >= m[ip].resetTime

\* entry === undefined || now > entry.resetTime
noLiveEntry(m, ip, t) ==
  ip \notin DOMAIN m \/ t > m[ip].resetTime

\* Variant: one more request passes before the limit is reached.
limitReached_offByOne(entry, maxRequests) ==
  entry.count > maxRequests

\* entry.count >= maxRequests
limitReached(entry, maxRequests) ==
  entry.count >= maxRequests

\* Variant: the first request of a window is checked against the limit.
firstRequest_checked(maxRequests, windowMs) ==
  [allowed |-> maxRequests >= 1,
   remaining |-> IF maxRequests >= 1 THEN maxRequests - 1 ELSE 0,
   resetInSeconds |-> ceilDiv(windowMs, MsPerSecond)]

\* The result of the request that opens a window.
firstRequest(maxRequests, windowMs) ==
  [allowed |-> TRUE,
   remaining |-> maxRequests - 1,
   resetInSeconds |-> ceilDiv(windowMs, MsPerSecond)]

\* Variant: a blocked request starts the window again.
checkRateLimit_blockedExtends(m, t, ip, maxRequests, windowMs) ==
  IF noLiveEntry(m, ip, t)
  THEN [requests |-> MapSet(m, ip, [count |-> 1, resetTime |-> t + windowMs]),
        result |-> firstRequest(maxRequests, windowMs)]
  ELSE LET entry == m[ip] IN
       IF limitReached(entry, maxRequests)
       THEN [requests |->
               MapSet(m, ip, [entry EXCEPT !.resetTime = t + windowMs]),
             result |->
               [allowed |-> FALSE,
                remaining |-> 0,
                resetInSeconds |->
                  ceilDiv(entry.resetTime - t, MsPerSecond)]]
       ELSE [requests |->
               MapSet(m, ip, [entry EXCEPT !.count = entry.count + 1]),
             result |->
               [allowed |-> TRUE,
                remaining |-> maxRequests - (entry.count + 1),
                resetInSeconds |->
                  ceilDiv(entry.resetTime - t, MsPerSecond)]]

\* checkRateLimit after startCleanupInterval(): the store it leaves and the
\* result it returns, t being Date.now().
checkRateLimit(m, t, ip, maxRequests, windowMs) ==
  IF noLiveEntry(m, ip, t)
  THEN [requests |-> MapSet(m, ip, [count |-> 1, resetTime |-> t + windowMs]),
        result |-> firstRequest(maxRequests, windowMs)]
  ELSE LET entry == m[ip] IN
       IF limitReached(entry, maxRequests)
       THEN [requests |-> m,
             result |->
               [allowed |-> FALSE,
                remaining |-> 0,
                resetInSeconds |->
                  ceilDiv(entry.resetTime - t, MsPerSecond)]]
       ELSE [requests |->
               MapSet(m, ip, [entry EXCEPT !.count = entry.count + 1]),
             result |->
               [allowed |-> TRUE,
                remaining |-> maxRequests - (entry.count + 1),
                resetInSeconds |->
                  ceilDiv(entry.resetTime - t, MsPerSecond)]]

\* Variant: the pass also deletes the entries that end at this moment.
cleanup_atReset(m, t) ==
  MapDelete(m, {ip \in DOMAIN m : t >= m[ip].resetTime})

\* The pass of the cleanup timer: every expired entry is deleted.
cleanup(m, t) == MapDelete(m, {ip \in DOMAIN m : t > m[ip].resetTime})

(***************************************************************************)
(* hist records, for each key, the calls made so far: the time of the call *)
(* that opened the current window (a call when the key had no window or    *)
(* later than the window's end), the calls, allowed calls and blocked      *)
(* calls since then, and the blocked calls of the window before.           *)
(***************************************************************************)
NoHistory ==
  [start |-> 0, calls |-> 0, allowed |-> 0, blocked |-> 0, prevBlocked |-> 0]

WindowOpen(h, t, windowMs) == h.calls > 0 /\ t <= h.start + windowMs

Recorded(h, t, windowMs, allowed) ==
  IF WindowOpen(h, t, windowMs)
  THEN [h EXCEPT !.calls = @ + 1,
                 !.allowed = @ + (IF allowed THEN 1 ELSE 0),
                 !.blocked = @ + (IF allowed THEN 0 ELSE 1)]
  ELSE [start |-> t, calls |-> 1,
        allowed |-> IF allowed THEN 1 ELSE 0,
        blocked |-> IF allowed THEN 0 ELSE 1,
        prevBlocked |-> h.blocked]

InitRate ==
  /\ tz = "UTC"
  /\ DateIdle
  /\ CallIdle
  /\ PickerIdle
  /\ AppIdle
  /\ requests = <<>>
  /\ now = 0
  /\ cleanupIntervalId = "null"
  /\ limits \in [Keys -> LimitChoices]
  /\ hist = [k \in Keys |-> NoHistory]

\* At most MaxCalls calls are made in one window of a key.
CheckRateLimit(ip) ==
  /\ WindowOpen(hist[ip], now, limits[ip].windowMs) =>
       hist[ip].calls < MaxCalls
  /\ cleanupIntervalId' = "timer"
  /\ LET out == checkRateLimit(requests, now, ip,
                               limits[ip].maxRequests, limits[ip].windowMs)
     IN  /\ requests' = out.requests
         /\ ret' = out.result
         /\ hist' = [hist EXCEPT
                       ![ip] = Recorded(@, now, limits[ip].windowMs,
                                        out.result.allowed)]
  /\ op' = "checkRateLimit"
  /\ arg' = ip
  /\ UNCHANGED <<dateVars, threw, pickerVars, now, limits, appVars>>

\* Time passes.
Tick ==
  /\ now < MaxNow
  /\ now' = now + TickMs
  /\ UNCHANGED <<dateVars, callVars, pickerVars, requests,
                 cleanupIntervalId, limits, hist, appVars>>

\* The callback of setInterval, once the timer is installed.
CleanupPass ==
  /\ cleanupIntervalId # "null"
  /\ requests' = cleanup(requests, now)
  /\ UNCHANGED <<dateVars, callVars, pickerVars, now, cleanupIntervalId,
                 limits, hist, appVars>>

ClearRateLimitStore ==
  /\ requests' = MapDelete(requests, DOMAIN requests)
  /\ cleanupIntervalId' = "null"
  /\ hist' = [k \in Keys |-> NoHistory]
  /\ op' = "clearRateLimitStore"
  /\ arg' = 0
  /\ ret' = 0
  /\ UNCHANGED <<dateVars, threw, pickerVars, now, limits, appVars>>

NextRate ==
  \/ \E ip \in Keys : CheckRateLimit(ip)
  \/ Tick
  \/ CleanupPass
  \/ ClearRateLimitStore

SpecRate == InitRate /\ [][NextRate]_vars

\* The last call was checkRateLimit for key k.
LastCallFor(k) == op = "checkRateLimit" /\ arg = k

(***************************************************************************)
(* C18: for one key called with a constant maxRequests >= 1 and a constant *)
(* windowMs, among the checkRateLimit calls that fall inside one window    *)
(* (not later than the window's resetTime), exactly the first maxRequests  *)
(* return allowed = true and every later one returns allowed = false with  *)
(* remaining = 0.  After every call the allowed calls of the window are    *)
(* the first min(calls, maxRequests) ones.                                 *)
(***************************************************************************)
C18_FirstMaxRequestsAllowed ==
  \A k \in Keys :
    limits[k].maxRequests >= 1 =>
      /\ hist[k].allowed =
           IF hist[k].calls <= limits[k].maxRequests
           THEN hist[k].calls ELSE limits[k].maxRequests
      /\ LastCallFor(k) =>
           /\ ret.allowed <=> hist[k].calls <= limits[k].maxRequests
           /\ ~ret.allowed => ret.remaining = 0

\* Two requests allowed, the third of the same window blocked.
C18_Witness ==
  \E k \in Keys :
    /\ LastCallFor(k)
    /\ limits[k].maxRequests = 2
    /\ hist[k].calls = 3
    /\ hist[k].allowed = 2
    /\ ~ret.allowed
    /\ now > hist[k].start

(***************************************************************************)
(* C19: a checkRateLimit call made strictly after the key's resetTime is   *)
(* allowed, restarts the window with count = 1 and resetTime = now +       *)
(* windowMs and returns remaining = maxRequests - 1, however many calls    *)
(* were blocked before; a call made exactly at resetTime still belongs to  *)
(* the old window: the resetTime stays and the count decides.              *)
(***************************************************************************)
C19_ExpiredWindowRestarts ==
  [][\A k \in Keys :
       (CheckRateLimit(k) /\ k \in DOMAIN requests) =>
         IF now > requests[k].resetTime
         THEN /\ ret'.allowed
              /\ ret'.remaining = limits[k].maxRequests - 1
              /\ requests'[k] =
                   [count |-> 1, resetTime |-> now + limits[k].windowMs]
         ELSE now = requests[k].resetTime =>
                /\ requests'[k].resetTime = requests[k].resetTime
                /\ ret'.allowed <=>
                     requests[k].count < limits[k].maxRequests
                /\ requests'[k].count =
                     requests[k].count + (IF ret'.allowed THEN 1 ELSE 0)
    ]_vars

\* A window restarted by a call after two blocked calls.
C19_Witness ==
  \E k \in Keys :
    /\ LastCallFor(k)
    /\ hist[k].calls = 1
    /\ hist[k].prevBlocked = 2
    /\ hist[k].start = now
    /\ ret.allowed
    /\ requests[k] = [count |-> 1, resetTime |-> now + limits[k].windowMs]

(***************************************************************************)
(* C20: the first checkRateLimit call for a key that has no live entry is  *)
(* always allowed, even when maxRequests is 0, in which case it returns    *)
(* remaining = -1; the next call for that key inside the window is         *)
(* blocked.                                                                *)
(***************************************************************************)
C20_FirstCallAlwaysAllowed ==
  \A k \in Keys :
    LastCallFor(k) =>
      /\ hist[k].calls = 1 =>
           /\ ret.allowed
           /\ ret.remaining = limits[k].maxRequests - 1
      /\ (limits[k].maxRequests = 0 /\ hist[k].calls >= 2) =>
           /\ ~ret.allowed
           /\ ret.remaining = 0

\* maxRequests 0: the first call was allowed, the second is blocked.
C20_Witness ==
  \E k \in Keys :
    /\ LastCallFor(k)
    /\ limits[k].maxRequests = 0
    /\ hist[k].calls = 2
    /\ hist[k].allowed = 1
    /\ ~ret.allowed

(***************************************************************************)
(* useCreatedPolls: the list of the polls this browser created.  A poll is *)
(* {id, title}; ids are generated by crypto.randomUUID(), modelled as the  *)
(* numbers 1, 2, ... in the order they are issued.  SpecPolls adds polls   *)
(* with fresh ids without limit (up to MaxPollIds) and makes up to         *)
(* MaxRepeats calls with an id it chooses among the first and the last     *)
(* entry of the list and an id that is not in it.                          *)
(***************************************************************************)
MAX_STORED_POLLS == 50

MaxPollIds == 51
MaxRepeats == 1

\* current.filter((p) => p.id !== pollId)
withoutId(current, pollId) ==
  LET keep(p) == p.id # pollId
  IN  SelectSeq(current, keep)

\* Variant: the poll is put in front without removing its older entry.
addPoll_noFilter(current, poll) ==
  LET updated == <<poll>> \o current
  IN  IF Len(updated) > MAX_STORED_POLLS
      THEN SubSeq(updated, 1, MAX_STORED_POLLS)
      ELSE updated

\* The updater addPoll hands to setPolls.
addPoll(current, poll) ==
  LET updated == <<poll>> \o withoutId(current, poll.id)
  IN  IF Len(updated) > MAX_STORED_POLLS
      THEN SubSeq(updated, 1, MAX_STORED_POLLS)
      ELSE updated

\* The updater removePoll hands to setPolls.
removePoll(current, pollId) == withoutId(current, pollId)

\* The ids a repeated call may name: of the first and of the last entry,
\* and one that no entry has.
ChosenIds ==
  {0} \union
    (IF polls = <<>> THEN {} ELSE {polls[1].id, polls[Len(polls)].id})

InitPolls ==
  /\ tz = "UTC"
  /\ DateIdle
  /\ CallIdle
  /\ PickerIdle
  /\ RateIdle
  /\ PollIdle
  /\ LoopIdle
  /\ DbIdle
  /\ CastIdle

\* addPoll with the id of a poll that was just created.
AddNewPoll ==
  /\ idsIssued < MaxPollIds
  /\ idsIssued' = idsIssued + 1
  /\ LET poll == [id |-> idsIssued + 1, title |-> "Original"]
     IN  /\ polls' = addPoll(polls, poll)
         /\ storedPolls' = addPoll(polls, poll)
         /\ arg' = poll
  /\ op' = "addPoll"
  /\ UNCHANGED <<dateVars, ret, threw, pickerVars, rateVars, repeats,
                 loopVars, dbVars, castVars>>

\* addPoll again with an id that was used before.
AddPollAgain ==
  /\ repeats < MaxRepeats
  /\ repeats' = repeats + 1
  /\ \E id \in ChosenIds \ {0} :
       LET poll == [id |-> id, title |-> "Updated"]
       IN  /\ polls' = addPoll(polls, poll)
           /\ storedPolls' = addPoll(polls, poll)
           /\ arg' = poll
  /\ op' = "addPoll"
  /\ UNCHANGED <<dateVars, ret, threw, pickerVars, rateVars, idsIssued,
                 loopVars, dbVars, castVars>>

RemovePoll(pollId) ==
  /\ repeats < MaxRepeats
  /\ repeats' = repeats + 1
  /\ op' = "removePoll"
  /\ arg' = pollId
  /\ polls' = removePoll(polls, pollId)
  /\ storedPolls' = removePoll(polls, pollId)
  /\ UNCHANGED <<dateVars, ret, threw, pickerVars, rateVars, idsIssued,
                 loopVars, dbVars, castVars>>

NextPolls ==
  \/ AddNewPoll
  \/ AddPollAgain
  \/ \E pollId \in ChosenIds : RemovePoll(pollId)

SpecPolls == InitPolls /\ [][NextPolls]_vars

(***************************************************************************)
(* C21: starting from an empty list, after any sequence of addPoll and     *)
(* removePoll calls the polls list of useCreatedPolls holds no two entries *)
(* with the same id and at most 50 entries, the poll of the latest addPoll *)
(* is at index 0, and removePoll of an id that is not in the list leaves   *)
(* the list unchanged.                                                     *)
(***************************************************************************)
PollIdsOf(list) == {list[i].id : i \in 1..Len(list)}

C21_PollsListWellFormed ==
  /\ [](/\ \A i, j \in 1..Len(polls) : polls[i].id = polls[j].id => i = j
        /\ Len(polls) <= 50
        /\ op = "addPoll" => (Len(polls) >= 1 /\ polls[1] = arg))
  /\ [][\A pollId \in ChosenIds :
          (RemovePoll(pollId) /\ pollId \notin PollIdsOf(polls)) =>
            polls' = polls]_vars

\* The fifty-first poll was added, the first one dropped off the end, and
\* an older poll was added again and moved to the front.
C21_Witness ==
  /\ op = "addPoll"
  /\ Len(polls) = 50
  /\ idsIssued = 51
  /\ polls[1].title = "Updated"
  /\ polls[50].id = 3

(***************************************************************************)
(* The loops of generateDateGroups and countPossibleGroups run one pass at *)
(* a time: SpecLoop.  EnterLoop runs the function up to its loop (or to    *)
(* its return, where it has none), LoopPass is one pass of the while loop, *)
(* LoopReturn the exit; a pass is possible whenever the loop condition     *)
(* holds (MaxIterations lies beyond every number of passes the bounds      *)
(* allow).  loopCurrent is the variable current of the code,               *)
(* groups the list being built, ret the count being built; the index of    *)
(* the next group is one more than the groups pushed.  For flexible the    *)
(* loop is the one of eachDayOfInterval, and the groups are built as the   *)
(* days are.                                                               *)
(***************************************************************************)
MaxLoopDays == 15
MaxIterations == 40

LoopRanges ==
  {[start |-> Date(s, 0), end |-> Date(s + n, 0)] :
     s \in 0..MaxStartDay, n \in 0..MaxLoopDays}

loopKind(f, p) ==
  IF f = "generateDateGroups"
  THEN CASE p.type = "flexible" -> "eachDay"
         [] p.type = "weekend" -> "weekend"
         [] p.type = "weekday-range" -> "weekdayRange"
         [] OTHER -> "chunk"
  ELSE CASE p.type = "weekend" -> "countWeekend"
         [] p.type = "weekday-range" -> "countWeekdayRange"
         [] OTHER -> "none"

\* The value of current when the loop is reached.
firstCurrent(kind, p, r) ==
  CASE kind \in {"weekend", "countWeekend"} ->
         IF ~isSaturday(r.start) THEN nextSaturday(r.start) ELSE r.start
    [] kind \in {"weekdayRange", "countWeekdayRange"} ->
         startOfDay(nextWeekday(r.start, p.startDay))
    [] OTHER -> startOfDay(r.start)

\* The condition of the while loop.
loopCondition(kind, cur, p, r) ==
  CASE kind = "countWeekend" -> DateLE(addDays(cur, 1), r.end)
    [] kind = "countWeekdayRange" ->
         DateLE(addDays(cur, calculateWeekdaySpan(p.startDay, p.endDay) - 1),
                r.end)
    [] OTHER -> DateLE(cur, r.end)

\* Variant: a chunk loop that moves on by one day less than the chunk.
loopAdvance_shortChunk(kind, cur, p) ==
  CASE kind = "eachDay" -> startOfDay(addDays(cur, 1))
    [] kind = "chunk" -> addDays(cur, legacy_getPatternDays(p) - 1)
    [] OTHER -> addDays(cur, 7)

\* The value of current after a pass.
loopAdvance(kind, cur, p) ==
  CASE kind = "eachDay" -> startOfDay(addDays(cur, 1))
    [] kind = "chunk" -> addDays(cur, legacy_getPatternDays(p))
    [] OTHER -> addDays(cur, 7)

\* The groups a pass pushes: one or none.
loopPush(kind, cur, p, r, index) ==
  CASE kind = "eachDay" ->
         <<[dates |-> <<formatISO(cur)>>,
            label |-> formatEEEMMMd(cur),
            range |-> formatMMMd(cur)]>>
    [] kind = "weekend" ->
         LET sunday == addDays(cur, 1)
         IN  IF DateLE(sunday, r.end)
             THEN <<[dates |-> <<formatISO(cur), formatISO(sunday)>>,
                     label |-> "Weekend " \o ToString(index),
                     range |-> formatGroupRange(<<cur, sunday>>)]>>
             ELSE <<>>
    [] kind = "weekdayRange" ->
         LET groupEnd ==
               addDays(cur, calculateWeekdaySpan(p.startDay, p.endDay) - 1)
         IN  IF DateLE(groupEnd, r.end)
             THEN <<[dates |-> formatEach(eachDayOfInterval(cur, groupEnd)),
                     label |->
                       getWeekdayRangeLabel(p.startDay, p.endDay, index),
                     range |-> formatGroupRange(<<cur, groupEnd>>)]>>
             ELSE <<>>
    [] kind = "chunk" ->
         LET chunkEnd == addDays(cur, legacy_getPatternDays(p) - 1)
         IN  IF DateLE(chunkEnd, r.end)
             THEN <<[dates |-> formatEach(eachDayOfInterval(cur, chunkEnd)),
                     label |-> legacy_getGroupLabel(p, index),
                     range |-> formatGroupRange(<<cur, chunkEnd>>)]>>
             ELSE <<>>
    [] OTHER -> <<>>

InitLoop ==
  /\ tz \in TimeZones
  /\ lib \in {"current", "legacy"}
  /\ pattern \in PatternsOf(lib)
  /\ range \in LoopRanges
  /\ CallIdle
  /\ PickerIdle
  /\ RateIdle
  /\ PollIdle
  /\ LoopIdle
  /\ DbIdle
  /\ CastIdle

EnterLoop ==
  /\ pc = "input"
  /\ \E f \in {"generateDateGroups", "countPossibleGroups"} :
       LET kind == loopKind(f, pattern) IN
       /\ op' = f
       /\ loopCurrent' = firstCurrent(kind, pattern, range)
       /\ IF kind = "none"
          THEN /\ pc' = "returned"
               /\ ret' = IF lib = "current"
                         THEN countPossibleGroups(pattern, range)
                         ELSE legacy_countPossibleGroups(pattern, range)
          ELSE /\ pc' = "loop"
               /\ ret' = 0
  /\ UNCHANGED <<tz, lib, pattern, range, groups, arg, threw, pickerVars,
                 rateVars, pollVars, iterations, dbVars, castVars>>

LoopPass ==
  /\ pc = "loop"
  /\ iterations < MaxIterations
  /\ LET kind == loopKind(op, pattern) IN
     /\ loopCondition(kind, loopCurrent, pattern, range)
     /\ groups' = groups \o loopPush(kind, loopCurrent, pattern, range,
                                     Len(groups) + 1)
     /\ ret' = IF kind \in {"countWeekend", "countWeekdayRange"}
               THEN ret + 1 ELSE ret
     /\ loopCurrent' = loopAdvance(kind, loopCurrent, pattern)
  /\ iterations' = iterations + 1
  /\ UNCHANGED <<tz, lib, pattern, range, pc, op, arg, threw, pickerVars,
                 rateVars, pollVars, dbVars, castVars>>

LoopReturn ==
  /\ pc = "loop"
  /\ ~loopCondition(loopKind(op, pattern), loopCurrent, pattern, range)
  /\ pc' = "returned"
  /\ UNCHANGED <<tz, lib, pattern, range, groups, callVars, pickerVars,
                 rateVars, pollVars, loopVars, dbVars, castVars>>

NextLoop ==
  \/ EnterLoop
  \/ LoopPass
  \/ LoopReturn

SpecLoop == InitLoop /\ [][NextLoop]_vars

(***************************************************************************)
(* C22: generateDateGroups and countPossibleGroups terminate for every     *)
(* well-formed pattern and every finite range, after a number of loop      *)
(* iterations that is at most linear in the number of days of the range:   *)
(* a call never makes more passes than the range has days, and once it has *)
(* made that many the loop condition is false, so that it returns.         *)
(***************************************************************************)
C22_LoopsTerminateLinearly ==
  /\ iterations <= InclusiveDays
  /\ (pc = "loop" /\ iterations = InclusiveDays) =>
       ~loopCondition(loopKind(op, pattern), loopCurrent, pattern, range)

\* Five-day chunks over sixteen days: three chunks pushed, and a fourth
\* pass that pushes nothing.
C22_Witness ==
  /\ pc = "returned"
  /\ op = "generateDateGroups"
  /\ pattern = [type |-> "custom", days |-> 5]
  /\ InclusiveDays = 16
  /\ iterations = 4
  /\ Len(groups) = 3


(***************************************************************************)
(* Ranges whose bounds carry a time of day.                                *)
(*                                                                         *)
(* A DateRange holds two Date objects, and nothing in the library or in    *)
(* its callers' types sets their time to midnight: SpecTimeOfDay hands the *)
(* library every range of bounds at midnight or at noon whose start is not *)
(* after its end.                                                          *)
(***************************************************************************)
MaxTimedDays == 8

TimedRanges ==
  {r \in [start : {Date(s, t) : s \in 0..MaxStartDay, t \in TimesOfDay},
          end : {Date(e, t) : e \in 0..(MaxStartDay + MaxTimedDays),
                              t \in TimesOfDay}] :
     /\ DateLE(r.start, r.end)
     /\ r.end.day - r.start.day <= MaxTimedDays}

InitTimeOfDay ==
  /\ tz \in TimeZones
  /\ lib \in {"current", "legacy"}
  /\ pattern \in PatternsOf(lib)
  /\ range \in TimedRanges
  /\ CallIdle
  /\ PickerIdle
  /\ AppIdle
  /\ RateIdle

SpecTimeOfDay == InitTimeOfDay /\ [][Next]_vars

\* The range of the same two calendar days with both bounds at midnight.
AtMidnight(r) == [start |-> startOfDay(r.start), end |-> startOfDay(r.end)]

(***************************************************************************)
(* C23: the results of generateDateGroups and countPossibleGroups depend   *)
(* only on the calendar days of range.start and range.end: the groups and  *)
(* the count of a range are those of the range of the same two days with   *)
(* both bounds at midnight, for every pattern.                             *)
(***************************************************************************)
C23_OnlyCalendarDays ==
  /\ (pc = "generated" /\ ~threw /\ op = "generateDateGroups") =>
       groups = IF lib = "current"
                THEN generateDateGroups(pattern, AtMidnight(range))
                ELSE legacy_generateDateGroups(pattern, AtMidnight(range))
  /\ (op = "countPossibleGroups" /\ ~threw) =>
       ret = IF lib = "current"
             THEN countPossibleGroups(pattern, AtMidnight(range))
             ELSE legacy_countPossibleGroups(pattern, AtMidnight(range))


(***************************************************************************)
(* The database and the server actions.                                    *)
(*                                                                         *)
(* doodles maps the id of a poll to its row, votes is the set of rows of   *)
(* the votes table and accommodations maps an id to its row; of each row   *)
(* the columns the actions below decide on are kept.  Null is the SQL NULL *)
(* of a column, which no string a client sends is equal to.                *)
(***************************************************************************)
Null == "<null>"

\* select count(*) from votes where doodle_id = d
votesOf(rows, d) == {v \in rows : v.doodleId = d}
countVotes(rows, d) == Cardinality(votesOf(rows, d))

\* crypto.randomUUID(): an id no row of the poll has.
newVoteId(rows, d) == d \o "-" \o ToString(countVotes(rows, d) + 1)

\* db.query.votes.findFirst({where: eq(votes.id, id)})
findFirstVote(rows, id) ==
  IF \E v \in rows : v.id = id
  THEN CHOOSE v \in rows : v.id = id
  ELSE Undefined

(***************************************************************************)
(* castVote, called by two clients at once.                                *)
(*                                                                         *)
(* A call runs up to its first await in one step and from there to its     *)
(* return in a second one; the database calls are not wrapped in a         *)
(* transaction, so that the steps of two calls interleave.  castPc holds   *)
(* each call's position and the values it has read, voteCount the count    *)
(* it has read.                                                            *)
(***************************************************************************)
ParticipantLimit == 50
MaxOtherVotes == 1

Callers == {"c1", "c2"}
DoodleIds == {"a", "b"}
ChosenParticipantIds == {"a-1", "b-1"}

NoCall == [at |-> "idle", doodleId |-> "", participantId |-> ""]

InitCast ==
  /\ tz = "UTC"
  /\ DateIdle
  /\ CallIdle
  /\ PickerIdle
  /\ RateIdle
  /\ PollIdle
  /\ LoopIdle
  /\ doodles = [d \in DoodleIds |-> [ownerKeyHash |-> Null]]
  /\ votes = {}
  /\ accommodations = <<>>
  /\ castPc = [c \in Callers |-> NoCall]
  /\ voteCount = [c \in Callers |-> 0]

\* voteCount !== undefined && voteCount.value >= 50
limitExceeded(counted) == counted >= ParticipantLimit

\* castVote without a participantId, up to the await of the count.
CountVotes(c) ==
  /\ castPc[c].at = "idle"
  /\ \E d \in DoodleIds :
       /\ d # "a" => countVotes(votes, d) < MaxOtherVotes
       /\ castPc' = [castPc EXCEPT ![c] = [at |-> "counted", doodleId |-> d,
                                           participantId |-> ""]]
       /\ voteCount' = [voteCount EXCEPT ![c] = countVotes(votes, d)]
  /\ UNCHANGED <<dateVars, callVars, pickerVars, rateVars, pollVars,
                 loopVars, dbVars>>

\* castVote from the count to its return: the limit, then the insert,
\* which the foreign key of votes.doodle_id rejects for a missing poll.
InsertVote(c) ==
  /\ castPc[c].at = "counted"
  /\ LET d == castPc[c].doodleId IN
     IF limitExceeded(voteCount[c])
     THEN /\ votes' = votes
          /\ threw' = FALSE
          /\ ret' = [status |-> "error",
                     message |-> "This poll has reached the maximum of 50 participants."]
     ELSE IF d \notin DOMAIN doodles
     THEN /\ votes' = votes
          /\ threw' = TRUE
          /\ ret' = [js |-> "Error",
                     message |-> "FOREIGN KEY constraint failed"]
     ELSE /\ votes' = votes \union {[id |-> newVoteId(votes, d),
                                     doodleId |-> d]}
          /\ threw' = FALSE
          /\ ret' = [status |-> "success", message |-> "Vote submitted!"]
  /\ op' = "castVote"
  /\ arg' = c
  /\ castPc' = [castPc EXCEPT ![c] = NoCall]
  /\ voteCount' = [voteCount EXCEPT ![c] = 0]
  /\ UNCHANGED <<dateVars, pickerVars, rateVars, pollVars, loopVars,
                 doodles, accommodations>>

\* castVote with a participantId, up to the await of findFirst.
FindVote(c) ==
  /\ castPc[c].at = "idle"
  /\ \E d \in DoodleIds, id \in ChosenParticipantIds :
       castPc' = [castPc EXCEPT ![c] = [at |-> "found", doodleId |-> d,
                                        participantId |-> id]]
  /\ UNCHANGED <<dateVars, callVars, pickerVars, rateVars, pollVars,
                 loopVars, dbVars, voteCount>>

\* castVote from findFirst to its return: the row is looked at again by
\* the update, which changes none of the columns kept here.
UpdateVote(c) ==
  /\ castPc[c].at = "found"
  /\ LET existing == findFirstVote(votes, castPc[c].participantId) IN
     ret' = IF existing = Undefined
            THEN [status |-> "error", message |-> "Vote not found"]
            ELSE IF existing.doodleId # castPc[c].doodleId
            THEN [status |-> "error", message |-> "Vote not found"]
            ELSE [status |-> "success", message |-> "Vote updated!"]
  /\ op' = "castVote"
  /\ arg' = c
  /\ threw' = FALSE
  /\ castPc' = [castPc EXCEPT ![c] = NoCall]
  /\ UNCHANGED <<dateVars, pickerVars, rateVars, pollVars, loopVars,
                 dbVars, voteCount>>

NextCast ==
  \/ \E c \in DOMAIN castPc : CountVotes(c)
  \/ \E c \in DOMAIN castPc : InsertVote(c)
  \/ \E c \in DOMAIN castPc : FindVote(c)
  \/ \E c \in DOMAIN castPc : UpdateVote(c)

SpecCast == InitCast /\ [][NextCast]_vars

(***************************************************************************)
(* C24: under any interleaving of concurrent castVote calls that create    *)
(* new votes for one poll, the poll never holds more than 50 votes.        *)
(***************************************************************************)
C24_NeverMoreThanFiftyVotes ==
  \A d \in DoodleIds : countVotes(votes, d) <= ParticipantLimit


(***************************************************************************)
(* createDoodle and deleteDoodle.                                          *)
(*                                                                         *)
(* An owner key is a UUID the browser draws; the browser sends its SHA-256 *)
(* digest, 64 hexadecimal characters, with createDoodle, and the key       *)
(* itself with deleteDoodle.  The server keeps whatever string of 64       *)
(* characters it is sent.  The strings of the model stand for strings of   *)
(* that length: the digests of the keys, and NonAsciiHash, 64 characters   *)
(* that are not ASCII and take two bytes each in UTF-8; ShortHash is a     *)
(* string of another length.                                               *)
(***************************************************************************)
Sha256HexLength == 64
CreateDoodleLimit == 10
HourMs == 60 * 60 * 1000

ClientIp == "203.0.113.7"
OwnerKeys == {"k1", "k2"}
NotAUuid == "not-a-uuid"
NonAsciiHash == "64 x U+00E9"
ShortHash == "abc"
NewPollIds == {"b", "c"}

\* z.string().uuid()
isUuid(str) == str \in OwnerKeys \union NewPollIds \union DoodleIds

\* createHash("sha256").update(ownerKey).digest("hex")
hashOwnerKeySync(ownerKey) == "sha256(" \o ownerKey \o ")"

ClientHashes ==
  {hashOwnerKeySync("k1"), NonAsciiHash, ShortHash}

\* String.prototype.length
stringLength(str) == IF str = ShortHash THEN Len(ShortHash) ELSE Sha256HexLength

\* Buffer.from(str).length: the length of the UTF-8 encoding.
byteLength(str) ==
  IF str = NonAsciiHash THEN 2 * Sha256HexLength ELSE stringLength(str)

\* crypto.timingSafeEqual throws a RangeError when the byte lengths differ.
timingSafeEqualThrows(a, b) == byteLength(a) # byteLength(b)
timingSafeEqual(a, b) == a = b

verifyOwnerKey(providedKey, storedHash) ==
  timingSafeEqual(hashOwnerKeySync(providedKey), storedHash)

verifyOwnerKeyThrows(providedKey, storedHash) ==
  timingSafeEqualThrows(hashOwnerKeySync(providedKey), storedHash)

\* delete from doodles where id = d, with ON DELETE CASCADE.
withoutDoodle(m, d) == [x \in DOMAIN m \ {d} |-> m[x]]
cascadeVotes(rows, d) == rows \ votesOf(rows, d)
cascadeAccommodations(m, d) ==
  [x \in {y \in DOMAIN m : m[y].doodleId # d} |-> m[x]]

InitDelete ==
  /\ tz = "UTC"
  /\ DateIdle
  /\ CallIdle
  /\ PickerIdle
  /\ RateIdle
  /\ PollIdle
  /\ LoopIdle
  /\ DbIdle
  /\ castPc = [c \in {"c1"} |-> NoCall]
  /\ voteCount = [c \in {"c1"} |-> 0]

\* createDoodle on a form whose title and dates are valid: the rate limit,
\* the owner key hash and the insert.
CreateOwnedDoodle ==
  /\ \E ownerKeyHashRaw \in ClientHashes :
       LET out == checkRateLimit(requests, now, ClientIp, CreateDoodleLimit,
                                 HourMs)
           ownerKeyHash ==
             IF stringLength(ownerKeyHashRaw) = Sha256HexLength
             THEN ownerKeyHashRaw ELSE Null
       IN  /\ requests' = out.requests
           /\ cleanupIntervalId' = "timer"
           /\ arg' = ownerKeyHashRaw
           /\ IF ~out.result.allowed
              THEN /\ doodles' = doodles
                   /\ ret' = [status |-> "error",
                              message |-> "Rate limit exceeded."]
              ELSE \E id \in NewPollIds \ DOMAIN doodles :
                     /\ doodles' =
                          MapSet(doodles, id, [ownerKeyHash |-> ownerKeyHash])
                     /\ ret' = [status |-> "success", pollId |-> id]
  /\ NewPollIds \ DOMAIN doodles # {}
  /\ op' = "createDoodle"
  /\ threw' = FALSE
  /\ UNCHANGED <<dateVars, pickerVars, now, limits, hist, pollVars, loopVars,
                 votes, accommodations, castVars>>

DeleteDoodle(doodleId, ownerKey) ==
  /\ op' = "deleteDoodle"
  /\ arg' = [doodleId |-> doodleId, ownerKey |-> ownerKey]
  /\ LET found == doodleId \in DOMAIN doodles
         storedHash == doodles[doodleId].ownerKeyHash
         error(message) ==
           /\ ret' = [status |-> "error", message |-> message]
           /\ threw' = FALSE
           /\ UNCHANGED dbVars
     IN  IF ~isUuid(ownerKey) THEN error("Invalid owner key")
         ELSE IF ~found THEN error("Poll not found")
         ELSE IF storedHash = Null
         THEN error("This poll cannot be deleted (created before ownership feature)")
         ELSE IF verifyOwnerKeyThrows(ownerKey, storedHash)
         THEN /\ ret' = [js |-> "RangeError",
                         message |->
                           "Input buffers must have the same byte length"]
              /\ threw' = TRUE
              /\ UNCHANGED dbVars
         ELSE IF ~verifyOwnerKey(ownerKey, storedHash)
         THEN error("Unauthorized")
         ELSE /\ doodles' = withoutDoodle(doodles, doodleId)
              /\ votes' = cascadeVotes(votes, doodleId)
              /\ accommodations' =
                   cascadeAccommodations(accommodations, doodleId)
              /\ ret' = [status |-> "success", message |-> "Poll deleted"]
              /\ threw' = FALSE
  /\ UNCHANGED <<dateVars, pickerVars, rateVars, pollVars, loopVars,
                 castVars>>

DeleteKeys == OwnerKeys \union {NotAUuid}

NextDelete ==
  \/ CreateOwnedDoodle
  \/ \E doodleId \in NewPollIds, ownerKey \in DeleteKeys :
       DeleteDoodle(doodleId, ownerKey)
  \/ \E c \in DOMAIN castPc : CountVotes(c)
  \/ \E c \in DOMAIN castPc : InsertVote(c)
  \/ \E c \in DOMAIN castPc : FindVote(c)
  \/ \E c \in DOMAIN castPc : UpdateVote(c)

SpecDelete == InitDelete /\ [][NextDelete]_vars

(***************************************************************************)
(* C25: deleteDoodle removes a poll only when the SHA-256 hash of the      *)
(* supplied ownerKey equals the poll's stored ownerKeyHash; when the poll  *)
(* does not exist, has a null ownerKeyHash, or the key does not match, it  *)
(* returns an error and leaves every poll and vote unchanged, so that a    *)
(* poll created without an owner key hash is never deleted by it.          *)
(***************************************************************************)
C25_DeleteOnlyByOwner ==
  [][\A doodleId \in NewPollIds, ownerKey \in DeleteKeys :
       DeleteDoodle(doodleId, ownerKey) =>
         IF /\ doodleId \in DOMAIN doodles
            /\ doodles[doodleId].ownerKeyHash = hashOwnerKeySync(ownerKey)
         THEN doodleId \notin DOMAIN doodles'
         ELSE /\ ~threw'
              /\ ret'.status = "error"
              /\ doodles' = doodles
              /\ votes' = votes]_vars


(***************************************************************************)
(* C26: a checkRateLimit call for key k never changes the stored entry of  *)
(* any other key, and a call that returns allowed = false changes no entry *)
(* at all: the count and the resetTime of k stay as they were, so blocked  *)
(* calls do not extend the window.                                         *)
(***************************************************************************)
C26_CallTouchesOnlyItsKey ==
  [][\A k \in Keys :
       CheckRateLimit(k) =>
         /\ \A other \in Keys \ {k} :
              /\ other \in DOMAIN requests' <=> other \in DOMAIN requests
              /\ other \in DOMAIN requests =>
                   requests'[other] = requests[other]
         /\ ~ret'.allowed => requests' = requests
    ]_vars

\* A blocked call for one key, later than the start of its window, while
\* the other key has an entry: the entry of the blocked key still has the
\* count and the resetTime the allowed calls gave it.
C26_Witness ==
  \E k \in Keys :
    /\ LastCallFor(k)
    /\ ~ret.allowed
    /\ now > hist[k].start
    /\ limits[k].maxRequests >= 1
    /\ requests[k] = [count |-> limits[k].maxRequests,
                      resetTime |-> hist[k].start + limits[k].windowMs]
    /\ \E other \in Keys \ {k} :
         other \in DOMAIN requests /\ requests[other].count >= 1


(***************************************************************************)
(* C27: running the periodic cleanup pass of the rate limiter at any       *)
(* moment between calls does not change the result of any later            *)
(* checkRateLimit call.  At every moment a call on the store as it is and  *)
(* a call on the store a pass would leave return the same result and leave *)
(* stores that differ in expired entries only; and a pass deletes the      *)
(* entries with now > resetTime and keeps every other entry as it is.      *)
(***************************************************************************)
C27_CleanupIsInvisible ==
  /\ [](\A k \in Keys :
          LET maxRequests == limits[k].maxRequests
              windowMs == limits[k].windowMs
              asIs == checkRateLimit(requests, now, k, maxRequests, windowMs)
              swept == checkRateLimit(cleanup(requests, now), now, k,
                                      maxRequests, windowMs)
          IN  /\ asIs.result = swept.result
              /\ cleanup(asIs.requests, now) = cleanup(swept.requests, now))
  /\ [][CleanupPass =>
          \A k \in DOMAIN requests :
            IF now > requests[k].resetTime
            THEN k \notin DOMAIN requests'
            ELSE k \in DOMAIN requests' /\ requests'[k] = requests[k]
       ]_vars

\* A pass has deleted the expired entry of one key, which had reached its
\* limit, and kept the open entry of the other.
C27_Witness ==
  \E k \in Keys :
    /\ hist[k].calls > limits[k].maxRequests
    /\ k \notin DOMAIN requests
    /\ now > hist[k].start + limits[k].windowMs
    /\ \E other \in Keys \ {k} :
         /\ other \in DOMAIN requests
         /\ now <= requests[other].resetTime


\* The ISO strings of a group, as a set.
DateSet(g) == {g.dates[j] : j \in 1..Len(g.dates)}

(***************************************************************************)
(* C28: for every pattern and range, no calendar date appears in two       *)
(* different groups of one generateDateGroups result, and none appears     *)
(* twice in one group: consecutive groups never overlap, including         *)
(* weekday-range patterns with a 7-day span and legacy chunks.             *)
(***************************************************************************)
C28_GroupsAreDisjoint ==
  (Generated /\ ~threw) =>
    /\ \A i, j \in 1..Len(groups) :
         i # j => DateSet(groups[i]) \cap DateSet(groups[j]) = {}
    /\ \A i \in 1..Len(groups) :
         Cardinality(DateSet(groups[i])) = Len(groups[i].dates)

\* Three groups of a weekday range that spans the whole week, across the
\* night the clocks are moved: each starts the day after the one before
\* ends.
C28_Witness ==
  /\ Generated
  /\ ~threw
  /\ tz = "America/New_York"
  /\ pattern.type = "weekday-range"
  /\ PeriodLength(pattern) = 7
  /\ Len(groups) >= 3
  /\ FirstDay(groups[2]) = LastDay(groups[1]) + 1
  /\ FirstDay(groups[3]) = LastDay(groups[2]) + 1


\* The weekday range from Saturday to Sunday, and the weekend pattern.
SaturdayToSunday == [type |-> "weekday-range", startDay |-> 6, endDay |-> 0]
Weekend == [type |-> "weekend"]

\* The dates lists of a result, in order.
DatesLists(result) == [i \in 1..Len(result) |-> result[i].dates]

(***************************************************************************)
(* C29: for every range with midnight bounds, generateDateGroups with the  *)
(* weekend pattern returns the same sequence of dates lists as with the    *)
(* pattern weekday-range startDay 6, endDay 0, and countPossibleGroups     *)
(* returns the same number for both patterns.                              *)
(***************************************************************************)
C29_WeekendIsSaturdayToSunday ==
  (lib = "current" /\ pattern \in {Weekend, SaturdayToSunday} /\ ~threw) =>
    LET twin == IF pattern = Weekend THEN SaturdayToSunday ELSE Weekend IN
    /\ Generated =>
         DatesLists(groups) = DatesLists(generateDateGroups(twin, range))
    /\ op = "countPossibleGroups" =>
         ret = countPossibleGroups(twin, range)

\* Two weekends of a range that starts on a Saturday, the second one the
\* weekend the clocks are moved, counted as two.
C29_Witness ==
  /\ lib = "current"
  /\ pattern = Weekend
  /\ tz = "America/New_York"
  /\ op = "countPossibleGroups"
  /\ ret = 2
  /\ getDay(range.start) = 6
  /\ DatesLists(groups) = <<<<"2025-03-01", "2025-03-02">>,
                            <<"2025-03-08", "2025-03-09">>>>


(***************************************************************************)
(* submitAccommodation and voteAccommodation.                              *)
(*                                                                         *)
(* The browser remembers in its localStorage which way it has voted on an  *)
(* accommodation and sends it as previousVote; the server keeps the two    *)
(* counters only.  All calls come from one address within one hour.        *)
(***************************************************************************)
SubmitAccommodationLimit == 5
VoteAccommodationLimit == 30
MaxAccommodationsPerPoll == 20
MaxAccommodations == 1
MaxCounter == 3

AccommodationPolls == {"b", "c"}
ChosenAccommodationIds == {"acc1", "acc0"}
VoteTypes == {"up", "down"}
VoteTypeInputs == VoteTypes \union {""}
PreviousVoteInputs == {"up", "down", ""}

\* select count(*) from accommodations where doodle_id = d
countAccommodations(m, d) == Cardinality({x \in DOMAIN m : m[x].doodleId = d})

\* crypto.randomUUID(): an id no row has.
newAccommodationId(m) == "acc" \o ToString(Cardinality(DOMAIN m) + 1)

\* The update voteAccommodation applies to a row.
applyVote(row, previousVote, voteType) ==
  IF previousVote = Null
  THEN IF voteType = "up"
       THEN [row EXCEPT !.upvotes = @ + 1]
       ELSE [row EXCEPT !.downvotes = @ + 1]
  ELSE IF previousVote = "up" /\ voteType = "down"
  THEN [row EXCEPT !.upvotes = @ - 1, !.downvotes = @ + 1]
  ELSE IF previousVote = "down" /\ voteType = "up"
  THEN [row EXCEPT !.upvotes = @ + 1, !.downvotes = @ - 1]
  ELSE row

\* A poll created without an owner key, no accommodation yet.
InitAccommodation ==
  /\ tz = "UTC"
  /\ DateIdle
  /\ CallIdle
  /\ PickerIdle
  /\ RateIdle
  /\ PollIdle
  /\ LoopIdle
  /\ doodles = [d \in {"b"} |-> [ownerKeyHash |-> Null]]
  /\ votes = {}
  /\ accommodations = <<>>
  /\ CastIdle

SubmitAccommodation(doodleId) ==
  /\ Cardinality(DOMAIN accommodations) < MaxAccommodations
  /\ LET out == checkRateLimit(requests, now,
                               ClientIp \o ":accommodation:submit",
                               SubmitAccommodationLimit, HourMs)
         error(message) ==
           /\ ret' = [status |-> "error", message |-> message]
           /\ accommodations' = accommodations
     IN  /\ requests' = out.requests
         /\ IF ~out.result.allowed THEN error("Rate limit exceeded.")
            ELSE IF doodleId \notin DOMAIN doodles
            THEN error("Poll not found")
            ELSE IF countAccommodations(accommodations, doodleId)
                      >= MaxAccommodationsPerPoll
            THEN error("This poll has reached the maximum of 20 accommodation suggestions.")
            ELSE /\ accommodations' =
                      MapSet(accommodations,
                             newAccommodationId(accommodations),
                             [doodleId |-> doodleId, upvotes |-> 0,
                              downvotes |-> 0])
                 /\ ret' = [status |-> "success",
                            message |-> newAccommodationId(accommodations)]
  /\ cleanupIntervalId' = "timer"
  /\ op' = "submitAccommodation"
  /\ arg' = doodleId
  /\ threw' = FALSE
  /\ UNCHANGED <<dateVars, pickerVars, now, limits, hist, pollVars, loopVars,
                 doodles, votes, castVars>>

VoteAccommodation(accommodationId, voteTypeRaw, previousVoteRaw) ==
  /\ accommodationId \in DOMAIN accommodations =>
       /\ accommodations[accommodationId].upvotes \in
            (1 - MaxCounter)..(MaxCounter - 1)
       /\ accommodations[accommodationId].downvotes \in
            (1 - MaxCounter)..(MaxCounter - 1)
  /\ LET out == checkRateLimit(requests, now,
                               ClientIp \o ":accommodation:vote",
                               VoteAccommodationLimit, HourMs)
         previousVote ==
           IF previousVoteRaw = "up" \/ previousVoteRaw = "down"
           THEN previousVoteRaw ELSE Null
         error(message) ==
           /\ ret' = [status |-> "error", message |-> message]
           /\ accommodations' = accommodations
     IN  /\ requests' = out.requests
         /\ IF ~out.result.allowed THEN error("Rate limit exceeded.")
            ELSE IF voteTypeRaw \notin VoteTypes THEN error("Invalid input")
            ELSE IF accommodationId \notin DOMAIN accommodations
            THEN error("Accommodation not found")
            ELSE /\ accommodations' =
                      [accommodations EXCEPT
                         ![accommodationId] =
                           applyVote(@, previousVote, voteTypeRaw)]
                 /\ ret' = [status |-> "success",
                            message |-> "Vote recorded"]
  /\ cleanupIntervalId' = "timer"
  /\ op' = "voteAccommodation"
  /\ arg' = accommodationId
  /\ threw' = FALSE
  /\ UNCHANGED <<dateVars, pickerVars, now, limits, hist, pollVars, loopVars,
                 doodles, votes, castVars>>

NextAccommodation ==
  \/ \E doodleId \in AccommodationPolls : SubmitAccommodation(doodleId)
  \/ \E accommodationId \in ChosenAccommodationIds,
        voteTypeRaw \in VoteTypeInputs,
        previousVoteRaw \in PreviousVoteInputs :
       VoteAccommodation(accommodationId, voteTypeRaw, previousVoteRaw)

SpecAccommodation == InitAccommodation /\ [][NextAccommodation]_vars

(***************************************************************************)
(* C30: after any sequence of voteAccommodation calls, with any            *)
(* client-supplied previousVote and voteType values, the upvotes and       *)
(* downvotes counters of every accommodation are both >= 0.                *)
(***************************************************************************)
C30_CountersNeverNegative ==
  \A id \in DOMAIN accommodations :
    accommodations[id].upvotes >= 0 /\ accommodations[id].downvotes >= 0

=============================================================================
